---- MODULE Spec2Model ----
(***************************************************************************)
(* LabScan admin core (admin/src-tauri/src/server.rs): the ServerManager,  *)
(* its RuntimeState behind one tokio Mutex, the agent session handler, the *)
(* heartbeat watchdog, the task coordinator and the event emitter.         *)
(*                                                                         *)
(* Every task of the runtime (start_runtime, the watchdog, the control     *)
(* surface, one reader per agent socket) is a process whose continuation   *)
(* is a stack of steps, todo[t].  One step is one atomic piece of the      *)
(* code: a clock read, a critical section of the mutex, a channel send or  *)
(* a UI emission.  A critical section that the code opens and closes       *)
(* without an await inside is one step, enabled only while the mutex is    *)
(* free; the two places that keep the guard over further steps             *)
(* (dispatch_task_now's fan-out and the watchdog's `if let`) set mutex to  *)
(* the holder.                                                             *)
(*                                                                         *)
(* Encodings.  Strings the code only copies are left out (os, version,     *)
(* mac, ssid, ...).  An IPv4 address a.b.c.d is the number c*256+d (the    *)
(* model's hosts share a.b), the empty string and None are 0; a subnet     *)
(* a.b.c.0/24 is the number c, None is 0.  Option<bool> is "none", "true"  *)
(* or "false"; Option<i64> is NoneTs or the number.                        *)
(***************************************************************************)
EXTENDS Integers, Sequences, FiniteSets, TLC

\* ---------------------------------------------------------------- constants
HEARTBEAT_TIMEOUT_MS == 20000
DEVICE_EMIT_THROTTLE_MS == 1000
DEVICE_ACTIVITY_RATE_MS == 5000
ACTIVITY_DEDUPE_MS == 30000
MAX_LOGS == 400
MAX_ACTIVITY == 200

\* ---------------------------------------------------------------- bounds
\* The wall clock at start (now_ms() is far beyond every window of the code).
StartTime == 100000
\* Frames one session reads before its socket closes.
MaxFrames == 2
\* Clock advances in one behaviour.
MaxTicks == 2
\* Commands the control surface runs in one behaviour.
MaxCmds == 3
\* Sweeps the watchdog starts in one behaviour.
MaxSweeps == 1

Agents == {"A", "B"}
Sessions == {"s1", "s2"}
Procs == {"main", "wd", "ui"} \cup Sessions
NoneTs == -1

VARIABLES
    now,                    \* now_ms()
    mutex,                  \* holder of ServerManager.inner, or "none"
    online, pair_token, devices, device_order, tasks, logs, activity,
    connections, last_device_emit_ms, last_activity_emit_ms,
    topology_snapshot, topology_key, admin_network,
    next_id,                \* Uuid::new_v4(): the next fresh id
    todo,                   \* [Procs -> Seq(step)]: each task's continuation
    sess,                   \* per socket: state, registered_agent_id, frames read
    chan,                   \* per socket: the unbounded channel tx -> rx
    rx_alive,               \* per socket: write_task still owns rx
    sock_out,               \* per socket: frames written to the agent
    ui_last, ui_count,      \* the last app.emit and how many there were
    upsert_emitted_ms,      \* per agent: when its last device_upsert went out
    topo_emitted,           \* revision and key of the last topology emission
    upsert_shown,           \* per agent: the status values its device_upserts showed
    dev_writes,             \* per agent: the status values written to its record
    cmd,                    \* the control surface's current call and its result
    ticks, sweeps, cmds     \* budget counters of the bounds

store == <<online, pair_token, devices, device_order, tasks, logs, activity,
           connections, last_device_emit_ms, last_activity_emit_ms,
           topology_snapshot, topology_key, admin_network>>
emitted == <<upsert_emitted_ms, topo_emitted, upsert_shown>>
vars == <<now, mutex, store, next_id, todo, sess, chan, rx_alive, sock_out,
          ui_last, ui_count, emitted, dev_writes, cmd, ticks, sweeps, cmds>>

\* ---------------------------------------------------------------- helpers
\* Lexicographic order of the strings the model uses (String::cmp).
StrOrder == <<"A", "B", "h1", "h2">>
StrRank(x) == CHOOSE i \in 1..Len(StrOrder) : StrOrder[i] = x

\* Lexicographic order on equally long tuples of numbers.
TupleLt(x, y) == \E i \in 1..Len(x) : x[i] < y[i] /\ \A j \in 1..(i - 1) : x[j] = y[j]

RECURSIVE InsertKeyed(_, _)
\* One step of a stable sort: e goes behind every element that is not greater.
InsertKeyed(e, s) ==
    IF s = <<>> THEN <<e>>
    ELSE IF TupleLt(e.key, s[Len(s)].key)
         THEN Append(InsertKeyed(e, SubSeq(s, 1, Len(s) - 1)), s[Len(s)])
         ELSE Append(s, e)

RECURSIVE SortKeyed(_)
\* slice::sort_by (stable) over [key, val] records.
SortKeyed(s) == IF s = <<>> THEN <<>> ELSE InsertKeyed(s[Len(s)], SortKeyed(SubSeq(s, 1, Len(s) - 1)))

Vals(s) == [i \in 1..Len(s) |-> s[i].val]
Range(s) == {s[i] : i \in 1..Len(s)}

RECURSIVE SetToSortedSeq(_)
\* sort() + dedup() of a collection of tuples of numbers.
SetToSortedSeq(S) ==
    IF S = {} THEN <<>>
    ELSE LET m == CHOOSE x \in S : \A y \in S \ {x} : TupleLt(x, y)
         IN  <<m>> \o SetToSortedSeq(S \ {m})

\* clean_non_empty_owned: trims and maps the empty string to None (both 0 here).
clean_non_empty_owned(v) == v

\* guess_subnet_from_ip: a.b.c.d -> a.b.c.0/24.
guess_subnet_from_ip(ip) == IF ip = 0 THEN 0 ELSE ip \div 256

\* ip_to_u32 of an address of the model (0: does not parse).
ip_to_u32(ip) == ip

\* ---------------------------------------------------------------- topology
NodeId(p, n, s) == [p |-> p, n |-> n, s |-> s]
Node(id, ty, subnet, gw, agent) == [id |-> id, node_type |-> ty, subnet_cidr |-> subnet, gateway_ip |-> gw, agent_id |-> agent, attached_count |-> NoneTs]
Edge(child, parent, method) == [child_id |-> child, parent_id |-> parent, method |-> method]

\* compare_device_topology_order as a sort key.
DeviceOrderKey(d) ==
    LET ip == ip_to_u32(IF d.ip # 0 THEN d.ip ELSE IF d.ips # <<>> THEN d.ips[1] ELSE 0)
    IN  <<IF ip # 0 THEN 0 ELSE 1, ip, StrRank(d.hostname), StrRank(d.agent_id)>>

\* compare_topology_nodes as a sort key: type rank, numeric IP (Some before
\* None), then the id string.
NodeRank(ty) == CASE ty = "subnet" -> 0 [] ty = "gateway" -> 1 [] ty = "switch" -> 2 [] ty = "unknown_hub" -> 3 [] ty = "admin" -> 4 [] ty = "host" -> 5 [] OTHER -> 6
IdKey(id) == CASE id.p = "host" -> StrRank(id.s) [] id.p = "hub" /\ id.n = 0 -> 100000 [] OTHER -> id.n
NodeOrderKey(n) == <<NodeRank(n.node_type), IF ip_to_u32(n.gateway_ip) # 0 THEN 0 ELSE 1, ip_to_u32(n.gateway_ip), IdKey(n.id)>>

\* Order of the id strings by their prefix: admin: < gw: < host: < hub: < subnet:.
PrefixRank(p) == CASE p = "admin" -> 0 [] p = "gw" -> 1 [] p = "host" -> 2 [] p = "hub" -> 3 [] OTHER -> 4
EdgeOrderKey(e) == <<PrefixRank(e.child_id.p), IdKey(e.child_id), PrefixRank(e.parent_id.p), IdKey(e.parent_id)>>

\* ensure_unknown_hub_node: the hub of a subnet, created once per subnet key.
HubId(subnet) == NodeId("hub", subnet, "")

\* A variant of ParentOf that attaches every node to the hub of its subnet.
ParentOfHubOnly(subnet, gw) == [id |-> HubId(subnet), method |-> "heuristic"]

\* The parent a node with these facts is attached to, and the edge's method.
ParentOf(subnet, gw) == IF clean_non_empty_owned(gw) # 0 THEN [id |-> NodeId("gw", gw, ""), method |-> "evidence"] ELSE [id |-> HubId(subnet), method |-> "heuristic"]

\* A variant of UseSubnetNodes that materializes a single observed subnet too.
UseSubnetNodesAlways(observed) == Len(observed) > 0

\* line 1291: let use_subnet_nodes = observed_subnets.len() > 1;
UseSubnetNodes(observed) == Len(observed) > 1

build_topology_snapshot(devs, order, admin, revision, updated_at) ==
    LET present == SelectSeq(order, LAMBDA id : id \in DOMAIN devs)
        host_records == Vals(SortKeyed([i \in 1..Len(present) |-> [key |-> DeviceOrderKey(devs[present[i]]), val |-> devs[present[i]]]]))
        admin_ip == clean_non_empty_owned(admin.ip)
        admin_subnet == IF clean_non_empty_owned(admin.subnet_cidr) # 0 THEN admin.subnet_cidr ELSE guess_subnet_from_ip(admin_ip)
        admin_gateway == clean_non_empty_owned(admin.default_gateway_ip)
        observed_subnets == SetToSortedSeq({<<host_records[i].subnet_cidr>> : i \in {j \in 1..Len(host_records) : host_records[j].subnet_cidr # 0}} \cup (IF admin_subnet # 0 THEN {<<admin_subnet>>} ELSE {}))
        use_subnet_nodes == UseSubnetNodes(observed_subnets)
        subnet_nodes == IF use_subnet_nodes THEN [i \in 1..Len(observed_subnets) |-> Node(NodeId("subnet", observed_subnets[i][1], ""), "subnet", observed_subnets[i][1], 0, "none")] ELSE <<>>
        \* (subnet, gateway) pairs: sorted by subnet, then numeric IP; deduped.
        gateway_specs == SetToSortedSeq((IF admin_gateway # 0 THEN {<<admin_subnet, admin_gateway>>} ELSE {}) \cup {<<host_records[i].subnet_cidr, host_records[i].default_gateway_ip>> : i \in {j \in 1..Len(host_records) : clean_non_empty_owned(host_records[j].default_gateway_ip) # 0}})
        gateway_nodes == [i \in 1..Len(gateway_specs) |-> Node(NodeId("gw", gateway_specs[i][2], ""), "gateway", gateway_specs[i][1], gateway_specs[i][2], "none")]
        gw_idx == {i \in 1..Len(gateway_specs) : use_subnet_nodes /\ gateway_specs[i][1] # 0}
        gateway_edges == [i \in 1..Len(gateway_specs) |-> Edge(NodeId("gw", gateway_specs[i][2], ""), NodeId("subnet", gateway_specs[i][1], ""), "evidence")]
        \* The nodes that need a hub, in the order the code meets them: admin, then hosts.
        attach == <<[subnet |-> admin_subnet, gw |-> admin_gateway]>> \o [i \in 1..Len(host_records) |-> [subnet |-> host_records[i].subnet_cidr, gw |-> host_records[i].default_gateway_ip]]
        hub_first == {i \in 1..Len(attach) : clean_non_empty_owned(attach[i].gw) = 0 /\ \A j \in 1..(i - 1) : ~(clean_non_empty_owned(attach[j].gw) = 0 /\ attach[j].subnet = attach[i].subnet)}
        admin_node == Node(NodeId("admin", 0, "self"), "admin", admin_subnet, admin_gateway, "none")
        host_node(i) == Node(NodeId("host", 0, host_records[i].agent_id), "host", host_records[i].subnet_cidr, host_records[i].default_gateway_ip, host_records[i].agent_id)
        hub_node(i) == Node(HubId(attach[i].subnet), "unknown_hub", attach[i].subnet, 0, "none")
        hub_edge(i) == Edge(HubId(attach[i].subnet), NodeId("subnet", attach[i].subnet, ""), "heuristic")
        attach_edge(i) == Edge(IF i = 1 THEN admin_node.id ELSE host_node(i - 1).id, ParentOf(attach[i].subnet, attach[i].gw).id, ParentOf(attach[i].subnet, attach[i].gw).method)
        \* nodes and edges in the order of the pushes
        attach_nodes(i) == (IF i = 1 THEN <<admin_node>> ELSE <<host_node(i - 1)>>) \o (IF i \in hub_first THEN <<hub_node(i)>> ELSE <<>>)
        attach_edges(i) == (IF i \in hub_first /\ use_subnet_nodes /\ attach[i].subnet # 0 THEN <<hub_edge(i)>> ELSE <<>>) \o <<attach_edge(i)>>
        Flat(f(_), n) == LET RECURSIVE go(_)
                             go(i) == IF i > n THEN <<>> ELSE f(i) \o go(i + 1)
                         IN  go(1)
        nodes0 == subnet_nodes \o gateway_nodes \o Flat(attach_nodes, Len(attach))
        edges0 == SelectSeq([i \in 1..Len(gateway_specs) |-> [e |-> gateway_edges[i], keep |-> i \in gw_idx]], LAMBDA x : x.keep)
        edges1 == [i \in 1..Len(edges0) |-> edges0[i].e] \o Flat(attach_edges, Len(attach))
        attachment_count(id) == Cardinality({i \in 1..Len(attach) : attach_edge(i).parent_id = id})
        nodes1 == [i \in 1..Len(nodes0) |-> IF nodes0[i].node_type \in {"gateway", "unknown_hub"} THEN [nodes0[i] EXCEPT !.attached_count = attachment_count(nodes0[i].id)] ELSE nodes0[i]]
    IN  [revision |-> revision, updated_at |-> updated_at,
         nodes |-> Vals(SortKeyed([i \in 1..Len(nodes1) |-> [key |-> NodeOrderKey(nodes1[i]), val |-> nodes1[i]]])),
         edges |-> Vals(SortKeyed([i \in 1..Len(edges1) |-> [key |-> EdgeOrderKey(edges1[i]), val |-> edges1[i]]]))]

\* topology_key: the sorted node parts and the sorted edge parts (the joined
\* strings are equal exactly when these sorted lists are).
NodePart(n) == <<n.id, n.node_type, n.subnet_cidr, n.gateway_ip>>
EdgePart(e) == <<e.child_id, e.parent_id, e.method>>
PartKey(p) == IF Len(p) = 4 THEN <<PrefixRank(p[1].p), IdKey(p[1]), NodeRank(p[2]), p[3], p[4]>> ELSE <<PrefixRank(p[1].p), IdKey(p[1]), PrefixRank(p[2].p), IdKey(p[2]), IF p[3] = "evidence" THEN 0 ELSE 1>>
SortParts(ps) == Vals(SortKeyed([i \in 1..Len(ps) |-> [key |-> PartKey(ps[i]), val |-> ps[i]]]))
topology_key_of(snapshot) == [nodes |-> SortParts([i \in 1..Len(snapshot.nodes) |-> NodePart(snapshot.nodes[i])]), edges |-> SortParts([i \in 1..Len(snapshot.edges) |-> EdgePart(snapshot.edges[i])])]
\* String::new(): the key before the first rebuild.
EmptyKey == [nodes |-> <<>>, edges |-> <<>>]

\* ---------------------------------------------------------------- records
NoDev == [agent_id |-> "none", hostname |-> "", ips |-> <<>>, status |-> "", last_seen_ms |-> 0, internet_reachable |-> "none", dns_ok |-> "none", last_internet_change_ms |-> NoneTs, last_dns_change_ms |-> NoneTs, first_seen_ms |-> 0, ip |-> 0, subnet_cidr |-> 0, default_gateway_ip |-> 0]
NoTask == [task_id |-> 0, kind |-> "", assigned_agents |-> <<>>, status |-> "", created_at |-> 0, started_at |-> NoneTs, ended_at |-> NoneTs, results |-> <<>>]
NoSnap == [revision |-> 0, updated_at |-> 0, nodes |-> <<>>, edges |-> <<>>]
\* NetworkFactsPayload::default(): every string empty.
NoNetwork == [ip |-> 0, subnet_cidr |-> 0, default_gateway_ip |-> 0]
NoPayload == [agent_id |-> "none", secret |-> 0, hostname |-> "", ips |-> <<>>, network |-> NoNetwork, status |-> "", last_seen |-> 0, internet_reachable |-> "absent", dns_ok |-> "absent", task_id |-> 0, ok |-> FALSE]

\* One step of a task's continuation and the locals it carries.
St(op) == [op |-> op, a |-> "none", dev |-> NoDev, force |-> FALSE, kind |-> "", t |-> 0, task |-> NoTask, ids |-> <<>>, ok |-> FALSE, pl |-> NoPayload, snap |-> NoSnap]

At(p, op) == todo[p] # <<>> /\ Head(todo[p]).op = op
Cur(p) == Head(todo[p])
\* The running step is replaced by the steps that follow it.
Goto(p, steps) == todo' = [todo EXCEPT ![p] = steps \o Tail(todo[p])]
\* tokio::sync::Mutex: lock().await completes only while nobody holds the guard.
Free == mutex = "none"

Get(m, k, dflt) == IF k \in DOMAIN m THEN m[k] ELSE dflt
Put(m, k, v) == [x \in DOMAIN m \cup {k} |-> IF x = k THEN v ELSE m[x]]
Remove(m, k) == [x \in DOMAIN m \ {k} |-> m[x]]
\* A variant of Truncate that discards at the front.
TruncateFront(s, n) == IF Len(s) > n THEN SubSeq(s, Len(s) - n + 1, Len(s)) ELSE s
Truncate(s, n) == IF Len(s) > n THEN SubSeq(s, 1, n) ELSE s

Event(name, by) == [name |-> name, by |-> by, a |-> "none", status |-> "", id |-> 0, rev |-> 0, key |-> EmptyKey]
\* app.emit(name, payload)
Emit(ev, n) ==
    /\ ui_last' = ev
    /\ ui_count' = ui_count + n
    /\ upsert_emitted_ms' = IF ev.name = "device_upsert" THEN Put(upsert_emitted_ms, ev.a, now) ELSE upsert_emitted_ms
    /\ upsert_shown' = IF ev.name = "device_upsert" THEN Put(upsert_shown, ev.a, Append(Get(upsert_shown, ev.a, <<>>), ev.status)) ELSE upsert_shown
    /\ topo_emitted' = IF ev.name = "topology_changed" THEN [rev |-> ev.rev, key |-> ev.key] ELSE topo_emitted
    /\ UNCHANGED dev_writes

\* The calls of the emitter, as the steps they start with.
EmitLog(a, level, msg) == <<[St("log_push") EXCEPT !.a = a, !.kind = msg]>>
EmitUpsert(dev, force) == <<[St("upsert_now") EXCEPT !.a = dev.agent_id, !.dev = dev, !.force = force]>>
EmitActivity(kind, a) == <<[St("act_now") EXCEPT !.kind = kind, !.a = a]>>
EmitTaskUpdate(task) == <<[St("task_update_emit") EXCEPT !.task = task]>>
EmitServerStatus == <<St("status_get")>>
Rebuild == <<St("topo_rebuild")>>

\* ---------------------------------------------------------------- emitter
\* emit_log: push_front into the ring under the lock, then emit.  (The
\* entry's ts is read while the entry is built; nothing reads it back.)
LogPush(p) ==
    /\ At(p, "log_push") /\ Free
    /\ logs' = Truncate(<<[id |-> next_id, agent_id |-> Cur(p).a, message |-> Cur(p).kind, ts |-> now]>> \o logs, MAX_LOGS)
    /\ next_id' = next_id + 1
    /\ Goto(p, <<[St("log_emit") EXCEPT !.a = Cur(p).a]>>)
    /\ UNCHANGED <<now, mutex, online, pair_token, devices, device_order, tasks, activity, connections, last_device_emit_ms, last_activity_emit_ms, topology_snapshot, topology_key, admin_network, sess, chan, rx_alive, sock_out, ui_last, ui_count, emitted, dev_writes, cmd, ticks, sweeps, cmds>>

LogEmit(p) ==
    /\ At(p, "log_emit")
    /\ Emit([Event("log_event", p) EXCEPT !.a = Cur(p).a], 1)
    /\ Goto(p, <<>>)
    /\ UNCHANGED <<now, mutex, store, next_id, sess, chan, rx_alive, sock_out, cmd, ticks, sweeps, cmds>>

\* emit_device_upsert_if_needed, line 711: let now = now_ms();
UpsertNow(p) ==
    /\ At(p, "upsert_now")
    /\ Goto(p, <<[Cur(p) EXCEPT !.op = "upsert_lock", !.t = now]>>)
    /\ UNCHANGED <<now, mutex, store, next_id, sess, chan, rx_alive, sock_out, ui_last, ui_count, emitted, dev_writes, cmd, ticks, sweeps, cmds>>

\* The throttle decision of emit_device_upsert_if_needed.
ShouldEmitUpsert(force, t, last) == force \/ t - last >= DEVICE_EMIT_THROTTLE_MS

\* lines 712-727: the throttle's critical section.
UpsertLock(p) ==
    /\ At(p, "upsert_lock") /\ Free
    /\ LET should == ShouldEmitUpsert(Cur(p).force, Cur(p).t, Get(last_device_emit_ms, Cur(p).a, 0))
       IN  /\ last_device_emit_ms' = IF should THEN Put(last_device_emit_ms, Cur(p).a, Cur(p).t) ELSE last_device_emit_ms
           /\ Goto(p, IF should THEN <<[Cur(p) EXCEPT !.op = "upsert_emit"]>> ELSE <<>>)
    /\ UNCHANGED <<now, mutex, online, pair_token, devices, device_order, tasks, logs, activity, connections, last_activity_emit_ms, topology_snapshot, topology_key, admin_network, next_id, sess, chan, rx_alive, sock_out, ui_last, ui_count, emitted, dev_writes, cmd, ticks, sweeps, cmds>>

\* line 729: app.emit(device_upsert), then emit_devices_snapshot.
UpsertEmit(p) ==
    /\ At(p, "upsert_emit")
    /\ Emit([Event("device_upsert", p) EXCEPT !.a = Cur(p).a, !.status = Cur(p).dev.status], 1)
    /\ Goto(p, <<St("snapshot_get")>>)
    /\ UNCHANGED <<now, mutex, store, next_id, sess, chan, rx_alive, sock_out, cmd, ticks, sweeps, cmds>>

\* emit_devices_snapshot: get_devices_snapshot() locks and clones ...
SnapshotGet(p) ==
    /\ At(p, "snapshot_get") /\ Free
    /\ Goto(p, <<St("snapshot_emit")>>)
    /\ UNCHANGED <<now, mutex, store, next_id, sess, chan, rx_alive, sock_out, ui_last, ui_count, emitted, dev_writes, cmd, ticks, sweeps, cmds>>

\* ... and the clone is emitted.
SnapshotEmit(p) ==
    /\ At(p, "snapshot_emit")
    /\ Emit(Event("devices_snapshot", p), 1)
    /\ Goto(p, <<>>)
    /\ UNCHANGED <<now, mutex, store, next_id, sess, chan, rx_alive, sock_out, cmd, ticks, sweeps, cmds>>

\* emit_task_update
TaskUpdateEmit(p) ==
    /\ At(p, "task_update_emit")
    /\ Emit([Event("task_update", p) EXCEPT !.id = Cur(p).task.task_id, !.status = Cur(p).task.status], 1)
    /\ Goto(p, <<>>)
    /\ UNCHANGED <<now, mutex, store, next_id, sess, chan, rx_alive, sock_out, cmd, ticks, sweeps, cmds>>

\* emit_server_status: get_status() locks and reads online ...
StatusGet(p) ==
    /\ At(p, "status_get") /\ Free
    /\ Goto(p, <<[St("status_emit") EXCEPT !.ok = online]>>)
    /\ UNCHANGED <<now, mutex, store, next_id, sess, chan, rx_alive, sock_out, ui_last, ui_count, emitted, dev_writes, cmd, ticks, sweeps, cmds>>

StatusEmit(p) ==
    /\ At(p, "status_emit")
    /\ Emit([Event("server_status", p) EXCEPT !.status = IF Cur(p).ok THEN "online" ELSE "offline"], 1)
    /\ Goto(p, <<>>)
    /\ UNCHANGED <<now, mutex, store, next_id, sess, chan, rx_alive, sock_out, cmd, ticks, sweeps, cmds>>

\* emit_activity, line 774: let now = now_ms(); the rate check is made only
\* for an event that names an agent.
ActNow(p) ==
    /\ At(p, "act_now")
    /\ Goto(p, <<[Cur(p) EXCEPT !.op = IF Cur(p).a # "none" THEN "act_check" ELSE "act_insert", !.t = now]>>)
    /\ UNCHANGED <<now, mutex, store, next_id, sess, chan, rx_alive, sock_out, ui_last, ui_count, emitted, dev_writes, cmd, ticks, sweeps, cmds>>

\* lines 776-780: the per-agent rate limit.
DropActivity(t, last) == t - last < DEVICE_ACTIVITY_RATE_MS

\* lines 775-784: the rate check, in a critical section of its own.
ActCheck(p) ==
    /\ At(p, "act_check") /\ Free
    /\ Goto(p, IF DropActivity(Cur(p).t, Get(last_activity_emit_ms, Cur(p).a, 0)) THEN <<>> ELSE <<[Cur(p) EXCEPT !.op = "act_insert"]>>)
    /\ UNCHANGED <<now, mutex, store, next_id, sess, chan, rx_alive, sock_out, ui_last, ui_count, emitted, dev_writes, cmd, ticks, sweeps, cmds>>

\* A variant of Coalesces that ignores the age of the newest entry.
CoalescesAnyAge(ring, kind, a, t) == ring # <<>> /\ ring[1].kind = kind /\ ring[1].agent_id = a

\* lines 792-796: the newest entry absorbs the event.
Coalesces(ring, kind, a, t) == ring # <<>> /\ ring[1].kind = kind /\ ring[1].agent_id = a /\ t - ring[1].ts <= ACTIVITY_DEDUPE_MS

\* lines 792-826: the activity ring after the event.
ActivityAfter(ring, kind, a, t, id) ==
    IF Coalesces(ring, kind, a, t)
    THEN [ring EXCEPT ![1] = [@ EXCEPT !.ts = t, !.count = (IF @ = NoneTs THEN 1 ELSE @) + 1]]
    ELSE Truncate(<<[id |-> id, kind |-> kind, agent_id |-> a, ts |-> t, count |-> NoneTs]>> \o ring, MAX_ACTIVITY)

\* lines 786-827: record the emission time and coalesce or push.
ActInsert(p) ==
    /\ At(p, "act_insert") /\ Free
    /\ last_activity_emit_ms' = IF Cur(p).a # "none" THEN Put(last_activity_emit_ms, Cur(p).a, Cur(p).t) ELSE last_activity_emit_ms
    /\ activity' = ActivityAfter(activity, Cur(p).kind, Cur(p).a, Cur(p).t, next_id)
    /\ next_id' = IF Coalesces(activity, Cur(p).kind, Cur(p).a, Cur(p).t) THEN next_id ELSE next_id + 1
    /\ Goto(p, <<[Cur(p) EXCEPT !.op = "act_emit"]>>)
    /\ UNCHANGED <<now, mutex, online, pair_token, devices, device_order, tasks, logs, connections, last_device_emit_ms, topology_snapshot, topology_key, admin_network, sess, chan, rx_alive, sock_out, ui_last, ui_count, emitted, dev_writes, cmd, ticks, sweeps, cmds>>

\* line 829: app.emit(activity_event)
ActEmit(p) ==
    /\ At(p, "act_emit")
    /\ Emit([Event("activity_event", p) EXCEPT !.a = Cur(p).a, !.status = Cur(p).kind], 1)
    /\ Goto(p, <<>>)
    /\ UNCHANGED <<now, mutex, store, next_id, sess, chan, rx_alive, sock_out, cmd, ticks, sweeps, cmds>>

\* A variant of TopoRebuild that stores and announces every candidate.
TopoRebuildAlways(p) ==
    /\ At(p, "topo_rebuild") /\ Free
    /\ LET candidate == build_topology_snapshot(devices, device_order, admin_network, topology_snapshot.revision + 1, now)
       IN  /\ topology_key' = topology_key_of(candidate)
           /\ topology_snapshot' = candidate
           /\ Goto(p, <<St("topo_get")>>)
    /\ UNCHANGED <<now, mutex, online, pair_token, devices, device_order, tasks, logs, activity, connections, last_device_emit_ms, last_activity_emit_ms, admin_network, next_id, sess, chan, rx_alive, sock_out, ui_last, ui_count, emitted, dev_writes, cmd, ticks, sweeps, cmds>>

\* rebuild_topology_if_changed, lines 683-699.
TopoRebuild(p) ==
    /\ At(p, "topo_rebuild") /\ Free
    /\ LET candidate == build_topology_snapshot(devices, device_order, admin_network, topology_snapshot.revision + 1, now)
           key == topology_key_of(candidate)
       IN  IF key # topology_key
           THEN /\ topology_key' = key
                /\ topology_snapshot' = candidate
                /\ Goto(p, <<St("topo_get")>>)
           ELSE /\ UNCHANGED <<topology_key, topology_snapshot>>
                /\ Goto(p, <<>>)
    /\ UNCHANGED <<now, mutex, online, pair_token, devices, device_order, tasks, logs, activity, connections, last_device_emit_ms, last_activity_emit_ms, admin_network, next_id, sess, chan, rx_alive, sock_out, ui_last, ui_count, emitted, dev_writes, cmd, ticks, sweeps, cmds>>

\* emit_topology_snapshot: get_topology_snapshot() locks and clones ...
TopoGet(p) ==
    /\ At(p, "topo_get") /\ Free
    /\ Goto(p, <<[St("topo_emit") EXCEPT !.snap = topology_snapshot]>>)
    /\ UNCHANGED <<now, mutex, store, next_id, sess, chan, rx_alive, sock_out, ui_last, ui_count, emitted, dev_writes, cmd, ticks, sweeps, cmds>>

\* ... and the clone goes out as topology_snapshot and as topology_changed.
TopoEmit(p) ==
    /\ At(p, "topo_emit")
    /\ Emit([Event("topology_changed", p) EXCEPT !.rev = Cur(p).snap.revision, !.key = topology_key_of(Cur(p).snap)], 2)
    /\ Goto(p, <<>>)
    /\ UNCHANGED <<now, mutex, store, next_id, sess, chan, rx_alive, sock_out, cmd, ticks, sweeps, cmds>>

\* The end of a scope that kept a MutexGuard alive.
Unlock(p) ==
    /\ At(p, "unlock") /\ mutex = p
    /\ mutex' = "none"
    /\ Goto(p, <<>>)
    /\ UNCHANGED <<now, store, next_id, sess, chan, rx_alive, sock_out, ui_last, ui_count, emitted, dev_writes, cmd, ticks, sweeps, cmds>>

\* ---------------------------------------------------------------- session handler
FirstNonEmpty(ips) == IF \E i \in 1..Len(ips) : ips[i] # 0 THEN ips[CHOOSE i \in 1..Len(ips) : ips[i] # 0 /\ \A j \in 1..(i - 1) : ips[j] = 0] ELSE 0

apply_network_payload(device, network) ==
    LET ip == IF clean_non_empty_owned(network.ip) # 0 THEN network.ip ELSE FirstNonEmpty(device.ips)
    IN  [device EXCEPT !.ip = ip,
                       !.subnet_cidr = IF clean_non_empty_owned(network.subnet_cidr) # 0 THEN network.subnet_cidr ELSE guess_subnet_from_ip(ip),
                       !.default_gateway_ip = clean_non_empty_owned(network.default_gateway_ip)]

\* tx.send / sender.send on the unbounded channel of socket s: the message is
\* queued while write_task still owns rx, and is lost (Err) once rx is dropped.
ChanSend(ch, alive, s, msg) == IF alive[s] THEN [ch EXCEPT ![s] = Append(@, msg)] ELSE ch

\* ws_agent_handler / handle_agent_socket up to the read loop: the connect
\* log, the channel and the spawned write_task.
Connect(s) ==
    /\ online /\ sess[s].state = "new"
    /\ sess' = [sess EXCEPT ![s].state = "open"]
    /\ rx_alive' = [rx_alive EXCEPT ![s] = TRUE]
    /\ todo' = [todo EXCEPT ![s] = EmitLog("none", "INFO", "connect")]
    /\ UNCHANGED <<now, mutex, store, next_id, chan, sock_out, ui_last, ui_count, emitted, dev_writes, cmd, ticks, sweeps, cmds>>

\* The read loop waits for the next frame.
Reading(s) == sess[s].state = "open" /\ todo[s] = <<>> /\ sess[s].frames < MaxFrames

\* A frame the loop skips with `continue`: not text, not a WireMessage, a
\* payload that does not parse, heartbeat or task_result before a register,
\* an unknown type.
RecvIgnored(s, why) ==
    /\ Reading(s)
    /\ why \in {"heartbeat", "task_result"} => sess[s].registered_agent_id = "none"
    /\ sess' = [sess EXCEPT ![s].frames = @ + 1]
    /\ UNCHANGED <<now, mutex, store, next_id, todo, chan, rx_alive, sock_out, ui_last, ui_count, emitted, dev_writes, cmd, ticks, sweeps, cmds>>

\* A variant of SecretOk that still accepts the token before the last rotation.
SecretOkStale(secret, token) == secret = token \/ secret = token - 1

\* A variant of SecretOk that accepts every secret.
SecretOkAny(secret, token) == TRUE

\* lines 915-918: the secret is compared with the pair token under the lock.
SecretOk(secret, token) == secret = token

\* register, lines 909-918.
RecvRegister(s, pl) ==
    /\ Reading(s) /\ Free
    /\ sess' = [sess EXCEPT ![s].frames = @ + 1]
    /\ todo' = [todo EXCEPT ![s] = <<[St("reg_reply") EXCEPT !.pl = pl, !.a = pl.agent_id, !.ok = SecretOk(pl.secret, pair_token)]>>]
    /\ UNCHANGED <<now, mutex, store, next_id, chan, rx_alive, sock_out, ui_last, ui_count, emitted, dev_writes, cmd, ticks, sweeps, cmds>>

\* The loop's exit (break, a closed socket, a read error), lines 1219-1226.
Teardown(s) == <<St("abort_writer")>> \o (IF sess[s].registered_agent_id # "none" THEN <<[St("disconnect") EXCEPT !.a = sess[s].registered_agent_id]>> ELSE <<>>)

\* lines 926-945: the reply is queued on tx; a bad secret breaks the loop.
RegReply(s) ==
    /\ At(s, "reg_reply")
    /\ chan' = ChanSend(chan, rx_alive, s, [type |-> "registered", ok |-> Cur(s).ok, task_id |-> 0, kind |-> ""])
    /\ IF Cur(s).ok
       THEN /\ Goto(s, <<[Cur(s) EXCEPT !.op = "reg_upsert"]>>)
            /\ UNCHANGED sess
       ELSE /\ Goto(s, Teardown(s))
            /\ sess' = [sess EXCEPT ![s].state = "closing", ![s].auth_failed = TRUE]
    /\ UNCHANGED <<now, mutex, store, next_id, rx_alive, sock_out, ui_last, ui_count, emitted, dev_writes, cmd, ticks, sweeps, cmds>>

\* A variant of RegisteredDevice that stamps first_seen_ms at every register.
RegisteredDeviceFresh(devs, pl, t) ==
    LET entry == IF pl.agent_id \in DOMAIN devs THEN devs[pl.agent_id] ELSE [NoDev EXCEPT !.agent_id = pl.agent_id]
    IN  apply_network_payload([entry EXCEPT !.hostname = pl.hostname, !.ips = pl.ips, !.status = "online", !.last_seen_ms = t, !.first_seen_ms = t], pl.network)

\* A variant of RegisteredDevice that leaves the status of a known device as
\* it was.
RegisteredDeviceKeepStatus(devs, pl, t) ==
    LET entry == IF pl.agent_id \in DOMAIN devs THEN devs[pl.agent_id]
                 ELSE [NoDev EXCEPT !.agent_id = pl.agent_id, !.hostname = pl.hostname, !.ips = pl.ips, !.status = "online", !.last_seen_ms = t, !.first_seen_ms = t]
    IN  apply_network_payload([entry EXCEPT !.hostname = pl.hostname, !.ips = pl.ips, !.last_seen_ms = t], pl.network)

\* lines 958-995: the device record after the register.
RegisteredDevice(devs, pl, t) ==
    LET entry == IF pl.agent_id \in DOMAIN devs THEN devs[pl.agent_id]
                 ELSE [NoDev EXCEPT !.agent_id = pl.agent_id, !.hostname = pl.hostname, !.ips = pl.ips, !.status = "online", !.last_seen_ms = t, !.first_seen_ms = t]
    IN  apply_network_payload([entry EXCEPT !.hostname = pl.hostname, !.ips = pl.ips, !.status = "online", !.last_seen_ms = t], pl.network)

\* lines 947-1026: install the channel and upsert the device in one critical
\* section, then the emissions.
RegUpsert(s) ==
    /\ At(s, "reg_upsert") /\ Free
    /\ LET pl == Cur(s).pl
           a == pl.agent_id
           was_new == a \notin DOMAIN devices
           old_status == IF was_new THEN "online" ELSE devices[a].status
           device == RegisteredDevice(devices, pl, now)
       IN  /\ connections' = Put(connections, a, s)
           /\ device_order' = IF was_new THEN Append(device_order, a) ELSE device_order
           /\ devices' = Put(devices, a, device)
           /\ sess' = [sess EXCEPT ![s].registered_agent_id = a]
           /\ Goto(s, EmitUpsert(device, TRUE)
                      \o (IF was_new THEN EmitActivity("device_connected", a) ELSE <<>>)
                      \o (IF old_status # "online" THEN EmitActivity("device_status_changed", a) ELSE <<>>)
                      \o Rebuild)
    /\ UNCHANGED <<now, mutex, online, pair_token, tasks, logs, activity, last_device_emit_ms, last_activity_emit_ms, topology_snapshot, topology_key, admin_network, next_id, chan, rx_alive, sock_out, ui_last, ui_count, emitted, cmd, ticks, sweeps, cmds>>
    /\ dev_writes' = Put(dev_writes, Cur(s).pl.agent_id, Append(Get(dev_writes, Cur(s).pl.agent_id, <<>>), devices'[Cur(s).pl.agent_id].status))

\* metrics.get(field): absent keeps the value, a bool sets it, anything else
\* (as_bool() = None) clears it.
MetricAfter(old, v) == IF v = "absent" THEN old ELSE v

\* A variant of HeartbeatLastSeen that takes a last_seen of 0 from the payload.
HeartbeatLastSeenFromZero(last_seen, t) == IF last_seen >= 0 THEN last_seen ELSE t

\* lines 1047-1051
HeartbeatLastSeen(last_seen, t) == IF last_seen > 0 THEN last_seen ELSE t

\* lines 1043-1090: the device record after the heartbeat.
HeartbeatDevice(d, pl, t) ==
    LET d1 == [d EXCEPT !.last_seen_ms = HeartbeatLastSeen(pl.last_seen, t),
                        !.status = IF pl.status # "" THEN pl.status ELSE @,
                        !.internet_reachable = MetricAfter(@, pl.internet_reachable),
                        !.dns_ok = MetricAfter(@, pl.dns_ok)]
        d2 == apply_network_payload(d1, pl.network)
    IN  [d2 EXCEPT !.last_internet_change_ms = IF d.internet_reachable # d2.internet_reachable THEN t ELSE @,
                   !.last_dns_change_ms = IF d.dns_ok # d2.dns_ok THEN t ELSE @]

\* heartbeat, lines 1036-1162 (registered_agent_id is Some; its device record
\* exists, records are never removed).
RecvHeartbeat(s, pl) ==
    /\ Reading(s) /\ Free
    /\ sess[s].registered_agent_id # "none"
    /\ LET a == sess[s].registered_agent_id
           old == devices[a]
           device == HeartbeatDevice(old, pl, now)
       IN  /\ devices' = [devices EXCEPT ![a] = device]
           /\ todo' = [todo EXCEPT ![s] =
                 EmitUpsert(device, FALSE)
                 \o (IF old.status # device.status THEN EmitActivity("device_status_changed", a) ELSE <<>>)
                 \o (IF old.internet_reachable # device.internet_reachable THEN EmitLog(a, "INFO", "internet_reachable changed") \o EmitActivity("internet_status_changed", a) ELSE <<>>)
                 \o (IF old.dns_ok # device.dns_ok THEN EmitLog(a, "INFO", "dns_ok changed") \o EmitActivity("dns_status_changed", a) ELSE <<>>)
                 \o Rebuild]
    /\ sess' = [sess EXCEPT ![s].frames = @ + 1]
    /\ UNCHANGED <<now, mutex, online, pair_token, device_order, tasks, logs, activity, connections, last_device_emit_ms, last_activity_emit_ms, topology_snapshot, topology_key, admin_network, next_id, chan, rx_alive, sock_out, ui_last, ui_count, emitted, cmd, ticks, sweeps, cmds>>
    /\ dev_writes' = Put(dev_writes, sess[s].registered_agent_id, Append(Get(dev_writes, sess[s].registered_agent_id, <<>>), devices'[sess[s].registered_agent_id].status))

\* A variant of ResultsAfter that keeps the agent's earlier record.
ResultsAfterKeeping(results, a, ok, t) == results \o <<[agent_id |-> a, ok |-> ok, ts |-> t]>>

\* results.retain(|r| r.agent_id != agent_id); results.push(record)
ResultsAfter(results, a, ok, t) == SelectSeq(results, LAMBDA r : r.agent_id # a) \o <<[agent_id |-> a, ok |-> ok, ts |-> t]>>

\* A variant of TerminalStatus that is content with one successful result.
TerminalStatusAnyOk(results) == IF \E i \in 1..Len(results) : results[i].ok THEN "done" ELSE "failed"

\* lines 1179-1183
TerminalStatus(results) == IF \A i \in 1..Len(results) : results[i].ok THEN "done" ELSE "failed"

\* lines 1168-1185: the task record after agent a's report.
TaskAfterResult(task, a, ok, t) ==
    LET results == ResultsAfter(task.results, a, ok, t)
    IN  IF Len(results) = Len(task.assigned_agents)
        THEN [task EXCEPT !.results = results, !.ended_at = t, !.status = TerminalStatus(results)]
        ELSE [task EXCEPT !.results = results]

\* lines 1196-1202
TaskActivityKind(status) == IF status = "failed" THEN "task_failed" ELSE IF status = "done" THEN "task_completed" ELSE "task_started"

\* task_result, lines 1164-1214.
RecvTaskResult(s, pl) ==
    /\ Reading(s) /\ Free
    /\ sess[s].registered_agent_id # "none"
    /\ LET a == sess[s].registered_agent_id
       IN  IF pl.task_id \in DOMAIN tasks
           THEN LET task == TaskAfterResult(tasks[pl.task_id], a, pl.ok, now)
                IN  /\ tasks' = [tasks EXCEPT ![pl.task_id] = task]
                    /\ todo' = [todo EXCEPT ![s] = EmitTaskUpdate(task) \o EmitActivity(TaskActivityKind(task.status), a)]
           ELSE UNCHANGED <<tasks, todo>>
    /\ sess' = [sess EXCEPT ![s].frames = @ + 1]
    /\ UNCHANGED <<now, mutex, online, pair_token, devices, device_order, logs, activity, connections, last_device_emit_ms, last_activity_emit_ms, topology_snapshot, topology_key, admin_network, next_id, chan, rx_alive, sock_out, ui_last, ui_count, emitted, dev_writes, cmd, ticks, sweeps, cmds>>

\* A variant of FrameRoute that handles a register whose payload does not
\* parse with the payload's defaults.
FrameRouteLenient(shape, type, registered) ==
    IF shape \in {"binary", "garbage"} THEN "skip"
    ELSE IF type = "register" THEN "register"
    ELSE IF ~registered THEN "skip"
    ELSE IF type \in {"heartbeat", "task_result"} /\ shape = "ok" THEN type
    ELSE "skip"

\* lines 895-913, 1030-1037, 1165, 1215: where the read loop takes a frame.
\* shape: "binary" (not a text message), "garbage" (not a WireMessage),
\* "payload" (the payload does not parse as its type), "ok".
FrameRoute(shape, type, registered) ==
    IF shape \in {"binary", "garbage"} THEN "skip"
    ELSE IF type = "register" THEN (IF shape = "ok" THEN "register" ELSE "skip")
    ELSE IF ~registered THEN "skip"
    ELSE IF type \in {"heartbeat", "task_result"} /\ shape = "ok" THEN type
    ELSE "skip"

\* One iteration of the read loop, lines 894-1217, on a frame of the given
\* shape and type; pl is what the payload parses to (the defaults when it
\* does not parse).
RecvFrame(s, shape, type, pl) ==
    \/ FrameRoute(shape, type, sess[s].registered_agent_id # "none") = "register" /\ RecvRegister(s, pl)
    \/ FrameRoute(shape, type, sess[s].registered_agent_id # "none") = "heartbeat" /\ RecvHeartbeat(s, pl)
    \/ FrameRoute(shape, type, sess[s].registered_agent_id # "none") = "task_result" /\ RecvTaskResult(s, pl)
    \/ FrameRoute(shape, type, sess[s].registered_agent_id # "none") = "skip" /\ RecvIgnored(s, IF shape = "ok" THEN type ELSE shape)

\* receiver.next() yields None or an error: the loop ends.
SocketClosed(s) ==
    /\ sess[s].state = "open" /\ todo[s] = <<>>
    /\ sess' = [sess EXCEPT ![s].state = "closing"]
    /\ todo' = [todo EXCEPT ![s] = Teardown(s)]
    /\ UNCHANGED <<now, mutex, store, next_id, chan, rx_alive, sock_out, ui_last, ui_count, emitted, dev_writes, cmd, ticks, sweeps, cmds>>

\* line 1219: write_task.abort() drops rx and whatever is still queued.
AbortWriter(s) ==
    /\ At(s, "abort_writer")
    /\ rx_alive' = [rx_alive EXCEPT ![s] = FALSE]
    /\ chan' = [chan EXCEPT ![s] = <<>>]
    /\ Goto(s, <<>>)
    /\ UNCHANGED <<now, mutex, store, next_id, sess, sock_out, ui_last, ui_count, emitted, dev_writes, cmd, ticks, sweeps, cmds>>

\* A variant of Disconnect that marks the device offline and keeps its
\* last_seen_ms.
DisconnectKeepLastSeen(s) ==
    /\ At(s, "disconnect") /\ Free
    /\ LET a == Cur(s).a
           device == [devices[a] EXCEPT !.status = "offline"]
       IN  /\ connections' = Remove(connections, a)
           /\ devices' = [devices EXCEPT ![a] = device]
           /\ Goto(s, EmitUpsert(device, TRUE) \o EmitActivity("device_disconnected", a) \o Rebuild)
    /\ UNCHANGED <<now, mutex, online, pair_token, device_order, tasks, logs, activity, last_device_emit_ms, last_activity_emit_ms, topology_snapshot, topology_key, admin_network, next_id, sess, chan, rx_alive, sock_out, ui_last, ui_count, emitted, cmd, ticks, sweeps, cmds>>
    /\ dev_writes' = Put(dev_writes, Cur(s).a, Append(Get(dev_writes, Cur(s).a, <<>>), devices'[Cur(s).a].status))

\* on_agent_disconnect, lines 832-859 (the device record exists).
Disconnect(s) ==
    /\ At(s, "disconnect") /\ Free
    /\ LET a == Cur(s).a
           device == [devices[a] EXCEPT !.status = "offline", !.last_seen_ms = now]
       IN  /\ connections' = Remove(connections, a)
           /\ devices' = [devices EXCEPT ![a] = device]
           /\ Goto(s, EmitUpsert(device, TRUE) \o EmitActivity("device_disconnected", a) \o Rebuild)
    /\ UNCHANGED <<now, mutex, online, pair_token, device_order, tasks, logs, activity, last_device_emit_ms, last_activity_emit_ms, topology_snapshot, topology_key, admin_network, next_id, sess, chan, rx_alive, sock_out, ui_last, ui_count, emitted, cmd, ticks, sweeps, cmds>>
    /\ dev_writes' = Put(dev_writes, Cur(s).a, Append(Get(dev_writes, Cur(s).a, <<>>), devices'[Cur(s).a].status))

\* The handler has returned: the socket is closed.
Closed(s) == sess[s].state = "closing" /\ todo[s] = <<>>

\* write_task, lines 884-890: one message from rx to the socket.
WriterPump(s) ==
    /\ rx_alive[s] /\ chan[s] # <<>>
    /\ sock_out' = [sock_out EXCEPT ![s] = Append(@, Head(chan[s]))]
    /\ chan' = [chan EXCEPT ![s] = Tail(@)]
    /\ UNCHANGED <<now, mutex, store, next_id, todo, sess, rx_alive, ui_last, ui_count, emitted, dev_writes, cmd, ticks, sweeps, cmds>>

\* write_task, lines 886-888: the socket write fails, the task ends and rx is
\* dropped with it.
WriterFail(s) ==
    /\ rx_alive[s] /\ chan[s] # <<>>
    /\ rx_alive' = [rx_alive EXCEPT ![s] = FALSE]
    /\ chan' = [chan EXCEPT ![s] = <<>>]
    /\ UNCHANGED <<now, mutex, store, next_id, todo, sess, sock_out, ui_last, ui_count, emitted, dev_writes, cmd, ticks, sweeps, cmds>>

\* ---------------------------------------------------------------- start-up
\* start_runtime, lines 325-330: nothing to do when already online, else the
\* first topology rebuild.
StartCheck(p) ==
    /\ At(p, "start_check") /\ Free
    /\ Goto(p, IF online THEN <<>> ELSE Rebuild \o <<St("spawn")>>)
    /\ UNCHANGED <<now, mutex, store, next_id, sess, chan, rx_alive, sock_out, ui_last, ui_count, emitted, dev_writes, cmd, ticks, sweeps, cmds>>

\* lines 332-348: the spawned tasks.  The watchdog starts with its sleep; this
\* process goes on as run_ws_server.
Spawn(p) ==
    /\ At(p, "spawn")
    /\ todo' = [todo EXCEPT ![p] = EmitLog("none", "INFO", "Starting WS server") \o <<St("ws_bind")>>, !["wd"] = <<St("wd_sleep")>>]
    /\ UNCHANGED <<now, mutex, store, next_id, sess, chan, rx_alive, sock_out, ui_last, ui_count, emitted, dev_writes, cmd, ticks, sweeps, cmds>>

\* run_ws_server, lines 467-486: TcpListener::bind, then set_online.
WsBind(p, bound) ==
    /\ At(p, "ws_bind") /\ Free
    /\ online' = bound
    /\ Goto(p, EmitServerStatus \o EmitLog("none", IF bound THEN "INFO" ELSE "ERROR", IF bound THEN "WS server listening" ELSE "ws: bind failed"))
    /\ UNCHANGED <<now, mutex, pair_token, devices, device_order, tasks, logs, activity, connections, last_device_emit_ms, last_activity_emit_ms, topology_snapshot, topology_key, admin_network, next_id, sess, chan, rx_alive, sock_out, ui_last, ui_count, emitted, dev_writes, cmd, ticks, sweeps, cmds>>

\* ---------------------------------------------------------------- watchdog
RECURSIVE Orders(_)
\* The orders in which a HashMap may yield the members of S.
Orders(S) == IF S = {} THEN {<<>>} ELSE UNION {{<<x>> \o o : o \in Orders(S \ {x})} : x \in S}

\* A variant of Stale that times a device out when it is exactly the timeout old.
StaleAtTimeout(d, t) == d.status # "offline" /\ t - d.last_seen_ms >= HEARTBEAT_TIMEOUT_MS

\* line 605: the device has timed out.
Stale(d, t) == d.status # "offline" /\ t - d.last_seen_ms > HEARTBEAT_TIMEOUT_MS

\* A variant of WdSweep that also forgets the gateway of each device it marks.
WdSweepUnrouting ==
    /\ At("wd", "wd_sleep") /\ Free /\ sweeps < MaxSweeps
    /\ sweeps' = sweeps + 1
    /\ LET stale == {a \in DOMAIN devices : Stale(devices[a], now)}
       IN  /\ devices' = [a \in DOMAIN devices |-> IF a \in stale THEN [devices[a] EXCEPT !.status = "offline", !.default_gateway_ip = 0] ELSE devices[a]]
           /\ \E ids \in Orders(stale) :
                 Goto("wd", IF ids = <<>> THEN <<St("wd_sleep")>> ELSE <<[St("wd_get") EXCEPT !.ids = ids], St("wd_sleep")>>)
    /\ UNCHANGED <<now, mutex, online, pair_token, device_order, tasks, logs, activity, connections, last_device_emit_ms, last_activity_emit_ms, topology_snapshot, topology_key, admin_network, next_id, sess, chan, rx_alive, sock_out, ui_last, ui_count, emitted, cmd, ticks, cmds>>
    /\ dev_writes' = [a \in DOMAIN dev_writes |-> IF a \in DOMAIN devices /\ Stale(devices[a], now) THEN Append(dev_writes[a], "offline") ELSE dev_writes[a]]

\* A variant of WdSweep that also drops the channel of each device it marks.
WdSweepDropping ==
    /\ At("wd", "wd_sleep") /\ Free /\ sweeps < MaxSweeps
    /\ sweeps' = sweeps + 1
    /\ LET stale == {a \in DOMAIN devices : Stale(devices[a], now)}
       IN  /\ devices' = [a \in DOMAIN devices |-> IF a \in stale THEN [devices[a] EXCEPT !.status = "offline"] ELSE devices[a]]
           /\ connections' = [a \in DOMAIN connections \ stale |-> connections[a]]
           /\ \E ids \in Orders(stale) :
                 Goto("wd", IF ids = <<>> THEN <<St("wd_sleep")>> ELSE <<[St("wd_get") EXCEPT !.ids = ids], St("wd_sleep")>>)
    /\ UNCHANGED <<now, mutex, online, pair_token, device_order, tasks, logs, activity, last_device_emit_ms, last_activity_emit_ms, topology_snapshot, topology_key, admin_network, next_id, sess, chan, rx_alive, sock_out, ui_last, ui_count, emitted, cmd, ticks, cmds>>
    /\ dev_writes' = [a \in DOMAIN dev_writes |-> IF a \in DOMAIN devices /\ Stale(devices[a], now) THEN Append(dev_writes[a], "offline") ELSE dev_writes[a]]

\* heartbeat_watchdog, lines 599-610: after the sleep, one sweep in one
\* critical section.
WdSweep ==
    /\ At("wd", "wd_sleep") /\ Free /\ sweeps < MaxSweeps
    /\ sweeps' = sweeps + 1
    /\ LET stale == {a \in DOMAIN devices : Stale(devices[a], now)}
       IN  /\ devices' = [a \in DOMAIN devices |-> IF a \in stale THEN [devices[a] EXCEPT !.status = "offline"] ELSE devices[a]]
           /\ \E ids \in Orders(stale) :
                 Goto("wd", IF ids = <<>> THEN <<St("wd_sleep")>> ELSE <<[St("wd_get") EXCEPT !.ids = ids], St("wd_sleep")>>)
    /\ UNCHANGED <<now, mutex, online, pair_token, device_order, tasks, logs, activity, connections, last_device_emit_ms, last_activity_emit_ms, topology_snapshot, topology_key, admin_network, next_id, sess, chan, rx_alive, sock_out, ui_last, ui_count, emitted, cmd, ticks, cmds>>
    /\ dev_writes' = [a \in DOMAIN dev_writes |-> IF a \in DOMAIN devices /\ Stale(devices[a], now) THEN Append(dev_writes[a], "offline") ELSE dev_writes[a]]

\* lines 611-623: `if let Some(device) = self.inner.lock().await.devices
\* .get(&id).cloned() { ... }`.  The MutexGuard is a temporary of the
\* scrutinee: it lives until the end of the if-let, over both emit calls.
WdGet ==
    /\ At("wd", "wd_get") /\ Free
    /\ mutex' = "wd"
    /\ LET ids == Cur("wd").ids
           device == devices[Head(ids)]
       IN  Goto("wd", EmitUpsert(device, TRUE) \o EmitActivity("device_disconnected", Head(ids)) \o <<St("unlock")>>
                      \o (IF Tail(ids) # <<>> THEN <<[St("wd_get") EXCEPT !.ids = Tail(ids)]>> ELSE <<>>))
    /\ UNCHANGED <<now, store, next_id, sess, chan, rx_alive, sock_out, ui_last, ui_count, emitted, dev_writes, cmd, ticks, sweeps, cmds>>

\* ---------------------------------------------------------------- control surface
TaskKinds == {"ping", "port_scan", "arp_snapshot"}
NoCmd == [op |-> "none", agents |-> <<>>, kind |-> "", ret |-> "", task |-> NoTask]
CmdIdle == todo["ui"] = <<>> /\ cmds < MaxCmds
\* The operator has not called a command yet.
FirstCommand == cmds = 0

\* A variant of DispatchError that does not look at the kind.
DispatchErrorAnyKind(agents, kind) == IF agents = <<>> THEN "at least one agent is required" ELSE "ok"

\* dispatch_task, lines 417-422: the result of the validation.
DispatchError(agents, kind) ==
    IF agents = <<>> THEN "at least one agent is required"
    ELSE IF kind \notin TaskKinds THEN "unsupported task kind"
    ELSE "ok"

\* dispatch_task, lines 417-422: the call returns Err.
DispatchRejected(agents, kind) ==
    /\ CmdIdle
    /\ DispatchError(agents, kind) # "ok"
    /\ cmds' = cmds + 1
    /\ cmd' = [NoCmd EXCEPT !.op = "dispatch_task", !.agents = agents, !.kind = kind, !.ret = DispatchError(agents, kind)]
    /\ UNCHANGED <<now, mutex, store, next_id, todo, sess, chan, rx_alive, sock_out, ui_last, ui_count, emitted, dev_writes, ticks, sweeps>>

\* dispatch_task, lines 424-442: the queued record is inserted.
DispatchTask(agents, kind) ==
    /\ CmdIdle /\ Free
    /\ DispatchError(agents, kind) = "ok"
    /\ cmds' = cmds + 1
    /\ LET task == [NoTask EXCEPT !.task_id = next_id, !.kind = kind, !.assigned_agents = agents, !.status = "queued", !.created_at = now]
       IN  /\ tasks' = Put(tasks, next_id, task)
           /\ todo' = [todo EXCEPT !["ui"] = <<[St("dispatch_lock") EXCEPT !.task = task]>>]
    /\ next_id' = next_id + 1
    /\ cmd' = [NoCmd EXCEPT !.op = "dispatch_task", !.agents = agents, !.kind = kind, !.ret = "pending"]
    /\ UNCHANGED <<now, mutex, online, pair_token, devices, device_order, logs, activity, connections, last_device_emit_ms, last_activity_emit_ms, topology_snapshot, topology_key, admin_network, sess, chan, rx_alive, sock_out, ui_last, ui_count, emitted, dev_writes, ticks, sweeps>>

\* dispatch_task_now, line 635: let state = self.inner.lock().await;
DispatchLock ==
    /\ At("ui", "dispatch_lock") /\ Free
    /\ mutex' = "ui"
    /\ Goto("ui", <<[Cur("ui") EXCEPT !.op = "dispatch_send"]>>)
    /\ UNCHANGED <<now, store, next_id, sess, chan, rx_alive, sock_out, ui_last, ui_count, emitted, dev_writes, cmd, ticks, sweeps, cmds>>

RECURSIVE FanOut(_, _, _, _, _)
\* lines 636-649: one task frame per assigned agent that has a channel.
FanOut(agents, conns, alive, ch, frame) ==
    IF agents = <<>> THEN ch
    ELSE FanOut(Tail(agents), conns, alive, IF Head(agents) \in DOMAIN conns THEN ChanSend(ch, alive, conns[Head(agents)], frame) ELSE ch, frame)

\* lines 633-647: started is set after every send, whatever send() returned.
DispatchStarted(agents, conns, alive) == \E i \in 1..Len(agents) : agents[i] \in DOMAIN conns

\* dispatch_task_now, lines 636-649: the fan-out, with the guard still held.
DispatchSend ==
    /\ At("ui", "dispatch_send")
    /\ LET task == Cur("ui").task
       IN  /\ chan' = FanOut(task.assigned_agents, connections, rx_alive, chan, [type |-> "task", ok |-> TRUE, task_id |-> task.task_id, kind |-> task.kind])
           /\ Goto("ui", <<St("unlock"), [Cur("ui") EXCEPT !.op = "dispatch_update", !.ok = DispatchStarted(task.assigned_agents, connections, rx_alive)]>>)
    /\ UNCHANGED <<now, mutex, store, next_id, sess, rx_alive, sock_out, ui_last, ui_count, emitted, dev_writes, cmd, ticks, sweeps, cmds>>

\* A variant of TaskAfterDispatch that empties the assignment of a task no
\* agent could be sent.
TaskAfterDispatchPruned(task, started, t) == IF started THEN [task EXCEPT !.status = "running", !.started_at = t] ELSE [task EXCEPT !.assigned_agents = <<>>]

\* lines 652-657: the stored record after the fan-out.
TaskAfterDispatch(task, started, t) == IF started THEN [task EXCEPT !.status = "running", !.started_at = t] ELSE task

\* dispatch_task_now, lines 651-660, and dispatch_task, lines 445-453.
DispatchUpdate ==
    /\ At("ui", "dispatch_update") /\ Free
    /\ LET id == Cur("ui").task.task_id
           updated == TaskAfterDispatch(tasks[id], Cur("ui").ok, now)
       IN  /\ tasks' = [tasks EXCEPT ![id] = updated]
           /\ Goto("ui", EmitTaskUpdate(updated) \o EmitActivity("task_started", "none") \o <<[St("cmd_return") EXCEPT !.task = updated]>>)
    /\ UNCHANGED <<now, mutex, online, pair_token, devices, device_order, logs, activity, connections, last_device_emit_ms, last_activity_emit_ms, topology_snapshot, topology_key, admin_network, next_id, sess, chan, rx_alive, sock_out, ui_last, ui_count, emitted, dev_writes, cmd, ticks, sweeps, cmds>>

\* The command returns Ok.
CmdReturn ==
    /\ At("ui", "cmd_return")
    /\ cmd' = [cmd EXCEPT !.ret = "ok", !.task = Cur("ui").task]
    /\ Goto("ui", <<>>)
    /\ UNCHANGED <<now, mutex, store, next_id, sess, chan, rx_alive, sock_out, ui_last, ui_count, emitted, dev_writes, ticks, sweeps, cmds>>

\* A variant of RotatePairToken that also drops every agent channel.
RotatePairTokenEvicting ==
    /\ CmdIdle /\ Free
    /\ cmds' = cmds + 1
    /\ pair_token' = pair_token + 1
    /\ connections' = <<>>
    /\ cmd' = [NoCmd EXCEPT !.op = "rotate_pair_token", !.ret = "pending"]
    /\ todo' = [todo EXCEPT !["ui"] = EmitServerStatus \o EmitLog("none", "INFO", "Pair token rotated") \o <<St("cmd_return")>>]
    /\ UNCHANGED <<now, mutex, online, devices, device_order, tasks, logs, activity, last_device_emit_ms, last_activity_emit_ms, topology_snapshot, topology_key, admin_network, next_id, sess, chan, rx_alive, sock_out, ui_last, ui_count, emitted, dev_writes, ticks, sweeps>>

\* rotate_pair_token, lines 398-408: a fresh token, server_status, a log entry.
RotatePairToken ==
    /\ CmdIdle /\ Free
    /\ cmds' = cmds + 1
    /\ pair_token' = pair_token + 1
    /\ cmd' = [NoCmd EXCEPT !.op = "rotate_pair_token", !.ret = "pending"]
    /\ todo' = [todo EXCEPT !["ui"] = EmitServerStatus \o EmitLog("none", "INFO", "Pair token rotated") \o <<St("cmd_return")>>]
    /\ UNCHANGED <<now, mutex, online, devices, device_order, tasks, logs, activity, connections, last_device_emit_ms, last_activity_emit_ms, topology_snapshot, topology_key, admin_network, next_id, sess, chan, rx_alive, sock_out, ui_last, ui_count, emitted, dev_writes, ticks, sweeps>>

\* ---------------------------------------------------------------- clock
\* The wall clock advances by d ms.
Tick(d) ==
    /\ ticks < MaxTicks
    /\ ticks' = ticks + 1
    /\ now' = now + d
    /\ UNCHANGED <<mutex, store, next_id, todo, sess, chan, rx_alive, sock_out, ui_last, ui_count, emitted, dev_writes, cmd, sweeps, cmds>>

\* ---------------------------------------------------------------- specification
\* detect_admin_network_facts: the admin host is 10.0.1.2, with or without a
\* default route via 10.0.1.1.
AdminFacts == {[ip |-> 258, subnet_cidr |-> 1, default_gateway_ip |-> gw] : gw \in {0, 257}}

\* Entries the rings hold from earlier on: older than everything a run adds,
\* the activity entries too old to absorb an event.
OldLog(i) == [id |-> -i, agent_id |-> "none", message |-> "earlier", ts |-> StartTime - i]
OldActivity(i) == [id |-> -i, kind |-> "task_started", agent_id |-> "none", ts |-> StartTime - ACTIVITY_DEDUPE_MS - i, count |-> NoneTs]

\* ServerManager::new(), and the setup hook about to run start_runtime; the
\* rings hold nlogs and nacts earlier entries.
InitRings(facts, nlogs, nacts) ==
    /\ now = StartTime
    /\ mutex = "none"
    /\ online = FALSE
    /\ pair_token = 1
    /\ devices = <<>>
    /\ device_order = <<>>
    /\ tasks = <<>>
    /\ \E n \in nlogs : logs = [i \in 1..n |-> OldLog(i)]
    /\ \E n \in nacts : activity = [i \in 1..n |-> OldActivity(i)]
    /\ connections = <<>>
    /\ last_device_emit_ms = <<>>
    /\ last_activity_emit_ms = <<>>
    /\ topology_snapshot = [NoSnap EXCEPT !.updated_at = StartTime]
    /\ topology_key = EmptyKey
    /\ admin_network \in facts
    /\ next_id = 1
    /\ todo = [p \in Procs |-> IF p = "main" THEN <<St("start_check")>> ELSE <<>>]
    /\ sess = [s \in Sessions |-> [state |-> "new", registered_agent_id |-> "none", frames |-> 0, auth_failed |-> FALSE]]
    /\ chan = [s \in Sessions |-> <<>>]
    /\ rx_alive = [s \in Sessions |-> FALSE]
    /\ sock_out = [s \in Sessions |-> <<>>]
    /\ ui_last = Event("none", "none")
    /\ ui_count = 0
    /\ upsert_emitted_ms = <<>>
    /\ topo_emitted = [rev |-> 0, key |-> EmptyKey]
    /\ upsert_shown = <<>>
    /\ dev_writes = <<>>
    /\ cmd = NoCmd
    /\ ticks = 0
    /\ sweeps = 0
    /\ cmds = 0

\* ServerManager::new(): both rings are empty.
InitWith(facts) == InitRings(facts, {0}, {0})

Init == InitWith(AdminFacts)

\* The emitter's steps and the scope ends, for every task.
EmitterStep(p) ==
    \/ LogPush(p) \/ LogEmit(p)
    \/ UpsertNow(p) \/ UpsertLock(p) \/ UpsertEmit(p) \/ SnapshotGet(p) \/ SnapshotEmit(p)
    \/ ActNow(p) \/ ActCheck(p) \/ ActInsert(p) \/ ActEmit(p)
    \/ TopoRebuild(p) \/ TopoGet(p) \/ TopoEmit(p)
    \/ StatusGet(p) \/ StatusEmit(p)

StartStep == StartCheck("main") \/ Spawn("main") \/ WsBind("main", TRUE) \/ WsBind("main", FALSE)

\* The facts agent a reports: host 10.0.1.(5|6) behind gateway 10.0.1.1.
AgentIp(a) == IF a = "A" THEN 261 ELSE 262
AgentHost(a) == IF a = "A" THEN "h1" ELSE "h2"
RegisterPayload(a, secret) == [NoPayload EXCEPT !.agent_id = a, !.secret = secret, !.hostname = AgentHost(a), !.ips = <<AgentIp(a)>>, !.network = [ip |-> AgentIp(a), subnet_cidr |-> 1, default_gateway_ip |-> 257]]
HeartbeatPayload(a, status, last_seen) == [NoPayload EXCEPT !.status = status, !.last_seen = last_seen, !.network = [ip |-> AgentIp(a), subnet_cidr |-> 1, default_gateway_ip |-> 257]]
TaskResultPayload(id, ok) == [NoPayload EXCEPT !.task_id = id, !.ok = ok]

\* The tasks in the middle of a handler; the environment acts when few are.
Busy == {p \in Procs : todo[p] # <<>> /\ ~(p = "wd" /\ At("wd", "wd_sleep"))}
Quiet == Busy = {}
Calm == Cardinality(Busy) <= 1
\* No session handler is in the middle of a frame (a command may be running).
SessionsIdle == Busy \subseteq {"ui"}

\* The task ids of the task frames written to socket s.
ReceivedTaskIds(s) == {sock_out[s][i].task_id : i \in {j \in 1..Len(sock_out[s]) : sock_out[s][j].type = "task"}}

\* The agent on socket s has read the reply to its register frame.
GotReply(s) == \E i \in 1..Len(sock_out[s]) : sock_out[s][i].type = "registered"

\* Agents pair one after the other (s1 is A's socket, s2 is B's).
SessionAgent(s) == IF s = "s1" THEN "A" ELSE "B"
PairingStep(s) ==
    \/ Quiet /\ Connect(s)
    \/ Quiet /\ sess[s].registered_agent_id = "none" /\ RecvRegister(s, RegisterPayload(SessionAgent(s), pair_token))
    \/ RegReply(s) \/ RegUpsert(s)
    \/ WriterPump(s)

TeardownStep(s) == (SessionsIdle /\ SocketClosed(s)) \/ AbortWriter(s) \/ Disconnect(s)

Paired == \A s \in Sessions : sess[s].registered_agent_id # "none"

\* The operator's dispatch_task calls: no agents, an unsupported kind, one
\* agent, two agents, one agent named twice.
DispatchInputs == {<<<<>>, "ping">>, <<<<"A">>, "reboot">>, <<<<"A">>, "ping">>, <<<<"A", "B">>, "ping">>, <<<<"A", "A">>, "ping">>}
\* The same calls with every agent named once.
PlainInputs == {in \in DispatchInputs : in[1] # <<"A", "A">>}
DispatchStep(inputs, ready) ==
    \/ \E in \in inputs : ready /\ Quiet /\ (DispatchRejected(in[1], in[2]) \/ DispatchTask(in[1], in[2]))
    \/ DispatchLock \/ DispatchSend \/ DispatchUpdate \/ CmdReturn

\* Task coordination: agents pair, the operator dispatches, any registered
\* agent reports on any known task, agent A's socket closes.
Next ==
    \/ StartStep
    \/ \E p \in Procs : EmitterStep(p) \/ TaskUpdateEmit(p) \/ Unlock(p)
    \/ \E s \in Sessions : PairingStep(s)
    \/ TeardownStep("s1")
    \/ \E s \in Sessions, id \in DOMAIN tasks, ok \in BOOLEAN : SessionsIdle /\ GotReply(s) /\ RecvTaskResult(s, TaskResultPayload(id, ok))
    \/ DispatchStep(DispatchInputs, Paired /\ FirstCommand)

Spec == InitWith({[ip |-> 258, subnet_cidr |-> 1, default_gateway_ip |-> 257]}) /\ [][Next]_vars

\* The same, with agents that report only on the task frames they have read
\* and an operator who names every agent once.
NextHonest ==
    \/ StartStep
    \/ \E p \in Procs : EmitterStep(p) \/ TaskUpdateEmit(p) \/ Unlock(p)
    \/ \E s \in Sessions : PairingStep(s)
    \/ TeardownStep("s1")
    \/ \E s \in Sessions, ok \in BOOLEAN : \E id \in ReceivedTaskIds(s) : SessionsIdle /\ RecvTaskResult(s, TaskResultPayload(id, ok))
    \/ DispatchStep(PlainInputs, Paired /\ FirstCommand)

SpecHonest == InitWith({[ip |-> 258, subnet_cidr |-> 1, default_gateway_ip |-> 257]}) /\ [][NextHonest]_vars

\* Pairing: each socket sends register frames with the token of the day, a
\* stale one or a wrong one, while the operator may rotate the token.
AuthStep(s) ==
    \/ Quiet /\ Connect(s)
    \/ \E secret \in {0, 1, pair_token} : Quiet /\ RecvRegister(s, RegisterPayload(SessionAgent(s), secret))
    \/ RegReply(s) \/ RegUpsert(s)
    \/ AbortWriter(s) \/ Disconnect(s)
    \/ WriterPump(s)

NextAuth ==
    \/ StartStep
    \/ \E p \in Procs : EmitterStep(p)
    \/ \E s \in Sessions : AuthStep(s)
    \/ (Quiet /\ FirstCommand /\ RotatePairToken) \/ CmdReturn

SpecAuth == InitWith({[ip |-> 258, subnet_cidr |-> 1, default_gateway_ip |-> 257]}) /\ [][NextAuth]_vars

\* Heartbeat timeout: agent A pairs, sends heartbeats or falls silent while
\* the clock runs and the watchdog sweeps; the operator dispatches one ping.
WatchdogStep == (Calm /\ WdSweep) \/ WdGet \/ EmitterStep("wd") \/ Unlock("wd")

NextWatch ==
    \/ StartStep
    \/ \E p \in Procs \ {"wd"} : EmitterStep(p) \/ TaskUpdateEmit(p) \/ Unlock(p)
    \/ PairingStep("s1")
    \/ Quiet /\ RecvHeartbeat("s1", HeartbeatPayload("A", "", 0))
    \/ TeardownStep("s1")
    \/ DispatchStep({<<<<"A">>, "ping">>}, sess["s1"].registered_agent_id # "none" /\ FirstCommand)
    \/ WatchdogStep
    \/ Quiet /\ Tick(HEARTBEAT_TIMEOUT_MS + 1)

\* The watchdog task is polled again and again while it can run.
SpecWatch == InitWith({[ip |-> 258, subnet_cidr |-> 1, default_gateway_ip |-> 257]}) /\ [][NextWatch]_vars /\ WF_vars(WatchdogStep)

\* Pairing under contention: agent A pairs on socket s1; socket s2 is a second
\* connection of A or is B's, and its frames arrive while s1's handler is at
\* any point of its work.  s2 may register again and close at a frame boundary.
PairAgents(s) == IF s = "s1" THEN {"A"} ELSE {"A", "B"}
PairReady(s) == IF s = "s1" THEN Quiet /\ sess[s].registered_agent_id = "none" ELSE Busy \subseteq {"s1"}
PairStep(s) ==
    \/ PairReady(s) /\ Connect(s)
    \/ \E a \in PairAgents(s) : PairReady(s) /\ RecvRegister(s, RegisterPayload(a, pair_token))
    \/ RegReply(s) \/ RegUpsert(s)
    \/ s = "s2" /\ PairReady(s) /\ SocketClosed(s)
    \/ AbortWriter(s) \/ Disconnect(s)
    \/ WriterPump(s)

NextPair ==
    \/ StartStep
    \/ \E p \in Procs : EmitterStep(p)
    \/ \E s \in Sessions : PairStep(s)

SpecPair == InitWith({[ip |-> 258, subnet_cidr |-> 1, default_gateway_ip |-> 257]}) /\ [][NextPair]_vars

\* The device registry: agents A and B pair in either order; A registers
\* again, sends heartbeats and closes its socket, while the clock runs and
\* the watchdog sweeps.
FleetStep(s) ==
    \/ Quiet /\ Connect(s)
    \/ Quiet /\ (s = "s1" \/ sess[s].registered_agent_id = "none") /\ RecvRegister(s, RegisterPayload(SessionAgent(s), pair_token))
    \/ RegReply(s) \/ RegUpsert(s)
    \/ Quiet /\ s = "s1" /\ RecvHeartbeat(s, HeartbeatPayload(SessionAgent(s), "", 0))
    \/ Quiet /\ s = "s1" /\ SocketClosed(s)
    \/ AbortWriter(s) \/ Disconnect(s)
    \/ WriterPump(s)

NextFleet ==
    \/ StartStep
    \/ \E p \in Procs : EmitterStep(p)
    \/ \E s \in Sessions : FleetStep(s)
    \/ (Calm /\ WdSweep) \/ WdGet
    \/ Quiet /\ Tick(HEARTBEAT_TIMEOUT_MS + 1)

SpecFleet == InitWith({[ip |-> 258, subnet_cidr |-> 1, default_gateway_ip |-> 257]}) /\ [][NextFleet]_vars

\* The read loop: each socket receives frames of every shape and type (a
\* register with the pair token, a plain heartbeat, a task_result for a task
\* id nobody dispatched, a type the server does not know).
FrameShapes == {"binary", "garbage", "payload", "ok"}
FrameTypes == {"register", "heartbeat", "task_result", "hello"}
FramePayload(s, shape, type) ==
    IF shape # "ok" THEN NoPayload
    ELSE IF type = "register" THEN RegisterPayload(SessionAgent(s), pair_token)
    ELSE IF type = "heartbeat" THEN HeartbeatPayload(SessionAgent(s), "", 0)
    ELSE TaskResultPayload(7, TRUE)

FrameStep(s) ==
    \/ Quiet /\ Connect(s)
    \/ \E shape \in FrameShapes, type \in FrameTypes : Quiet /\ RecvFrame(s, shape, type, FramePayload(s, shape, type))
    \/ RegReply(s) \/ RegUpsert(s)
    \/ WriterPump(s)

NextFrames ==
    \/ StartStep
    \/ \E p \in Procs : EmitterStep(p)
    \/ \E s \in Sessions : FrameStep(s)

SpecFrames == InitWith({[ip |-> 258, subnet_cidr |-> 1, default_gateway_ip |-> 257]}) /\ [][NextFrames]_vars

\* Heartbeats: agent A pairs on s1 and, once the activity window of its
\* pairing is over, sends a heartbeat: with or without a status, with a
\* last_seen that is negative, zero, tiny or ahead of the clock, with or
\* without the metrics internet_reachable and dns_ok.
HeartbeatInputs ==
    {[HeartbeatPayload("A", status, last_seen) EXCEPT !.internet_reachable = internet, !.dns_ok = dns, !.network = IF facts THEN @ ELSE NoNetwork] :
        status \in {"", "degraded"}, last_seen \in {-5, 0, 1, StartTime + 20000}, internet \in {"absent", "true"}, dns \in {"absent", "false"}, facts \in BOOLEAN}

BeatStep(s) ==
    \/ Quiet /\ Connect(s)
    \/ Quiet /\ sess[s].registered_agent_id = "none" /\ RecvRegister(s, RegisterPayload(SessionAgent(s), pair_token))
    \/ RegReply(s) \/ RegUpsert(s)
    \/ \E pl \in HeartbeatInputs :
          /\ Quiet /\ sess[s].registered_agent_id # "none"
          /\ now - devices[sess[s].registered_agent_id].first_seen_ms >= DEVICE_ACTIVITY_RATE_MS
          /\ RecvHeartbeat(s, pl)
    \/ WriterPump(s)

NextBeat ==
    \/ StartStep
    \/ \E p \in Procs : EmitterStep(p)
    \/ BeatStep("s1")
    \/ Quiet /\ Tick(DEVICE_ACTIVITY_RATE_MS)

SpecBeat == InitWith({[ip |-> 258, subnet_cidr |-> 1, default_gateway_ip |-> 257]}) /\ [][NextBeat]_vars

\* The throttle under a moving clock: A pairs, sends plain heartbeats and may
\* close its socket, while the clock moves by 1 ms or 999 ms at any point,
\* also between a handler's clock reading and its emission.
ThrottleStep(s) ==
    \/ Quiet /\ Connect(s)
    \/ Quiet /\ sess[s].registered_agent_id = "none" /\ RecvRegister(s, RegisterPayload(SessionAgent(s), pair_token))
    \/ RegReply(s) \/ RegUpsert(s)
    \/ sess[s].registered_agent_id # "none" /\ RecvHeartbeat(s, HeartbeatPayload(SessionAgent(s), "", 0))
    \/ SocketClosed(s)
    \/ AbortWriter(s) \/ Disconnect(s)
    \/ WriterPump(s)

NextThrottle ==
    \/ StartStep
    \/ \E p \in Procs : EmitterStep(p)
    \/ ThrottleStep("s1")
    \/ \E d \in {1, DEVICE_EMIT_THROTTLE_MS - 1} : Tick(d)

SpecThrottle == InitWith({[ip |-> 258, subnet_cidr |-> 1, default_gateway_ip |-> 257]}) /\ [][NextThrottle]_vars

\* The timeout boundary: A and B pair one after the other or 1 ms apart, A's
\* socket may close, the clock moves by 1 ms or by the timeout, and the
\* watchdog sweeps.
SweepStep(s) ==
    \/ Quiet /\ Connect(s)
    \/ Quiet /\ sess[s].registered_agent_id = "none" /\ RecvRegister(s, RegisterPayload(SessionAgent(s), pair_token))
    \/ RegReply(s) \/ RegUpsert(s)
    \/ Quiet /\ s = "s1" /\ SocketClosed(s)
    \/ AbortWriter(s) \/ Disconnect(s)
    \/ WriterPump(s)

NextSweep ==
    \/ StartStep
    \/ \E p \in Procs : EmitterStep(p)
    \/ \E s \in Sessions : SweepStep(s)
    \/ (Quiet /\ WdSweep) \/ WdGet
    \/ \E d \in {1, HEARTBEAT_TIMEOUT_MS} : Quiet /\ Tick(d)

SpecSweep == InitWith({[ip |-> 258, subnet_cidr |-> 1, default_gateway_ip |-> 257]}) /\ [][NextSweep]_vars

\* The rings at their capacity: the server starts and A pairs while the log
\* ring and the activity ring are empty, one entry short of full, or full.
NextRings ==
    \/ StartStep
    \/ \E p \in Procs : EmitterStep(p)
    \/ PairingStep("s1")

SpecRings == InitRings({[ip |-> 258, subnet_cidr |-> 1, default_gateway_ip |-> 257]}, {0, MAX_LOGS - 1, MAX_LOGS}, {0, MAX_ACTIVITY - 1, MAX_ACTIVITY}) /\ [][NextRings]_vars

\* One agent and the operator: A pairs, reports on any known task and may
\* close its socket, the operator dispatches pings to A up to MaxCmds times,
\* the clock moves by 1 ms or by the dedupe window and the watchdog sweeps.
DeskStep(s) ==
    \/ Quiet /\ Connect(s)
    \/ Quiet /\ sess[s].registered_agent_id = "none" /\ RecvRegister(s, RegisterPayload(SessionAgent(s), pair_token))
    \/ RegReply(s) \/ RegUpsert(s)
    \/ \E id \in DOMAIN tasks, ok \in BOOLEAN : Quiet /\ RecvTaskResult(s, TaskResultPayload(id, ok))
    \/ (Quiet /\ SocketClosed(s)) \/ AbortWriter(s) \/ Disconnect(s)
    \/ WriterPump(s)

NextDesk ==
    \/ StartStep
    \/ \E p \in Procs : EmitterStep(p) \/ TaskUpdateEmit(p) \/ Unlock(p)
    \/ DeskStep("s1")
    \/ (Quiet /\ "A" \in DOMAIN devices /\ DispatchTask(<<"A">>, "ping")) \/ DispatchLock \/ DispatchSend \/ DispatchUpdate \/ CmdReturn
    \/ (Quiet /\ WdSweep) \/ WdGet
    \/ \E d \in {1, ACTIVITY_DEDUPE_MS} : Quiet /\ Tick(d)

SpecDesk == InitWith({[ip |-> 258, subnet_cidr |-> 1, default_gateway_ip |-> 257]}) /\ [][NextDesk]_vars

\* The task ledger: A pairs on one socket or on two, the operator dispatches
\* twice, every socket of A reports on any known task and A's first socket
\* may close.
LedgerInputs == {<<<<>>, "ping">>, <<<<"A">>, "ping">>, <<<<"A", "B">>, "ping">>}
LedgerStep(s) ==
    \/ Quiet /\ Connect(s)
    \/ Quiet /\ sess[s].registered_agent_id = "none" /\ RecvRegister(s, RegisterPayload("A", pair_token))
    \/ RegReply(s) \/ RegUpsert(s)
    \/ \E id \in DOMAIN tasks, ok \in BOOLEAN : Quiet /\ RecvTaskResult(s, TaskResultPayload(id, ok))
    \/ (Quiet /\ s = "s1" /\ SocketClosed(s)) \/ AbortWriter(s) \/ Disconnect(s)
    \/ WriterPump(s)

NextLedger ==
    \/ StartStep
    \/ \E p \in Procs : EmitterStep(p) \/ TaskUpdateEmit(p) \/ Unlock(p)
    \/ \E s \in Sessions : LedgerStep(s)
    \/ DispatchStep(LedgerInputs, "A" \in DOMAIN devices /\ cmds < MaxCmds - 1)

SpecLedger == InitWith({[ip |-> 258, subnet_cidr |-> 1, default_gateway_ip |-> 257]}) /\ [][NextLedger]_vars

\* The topology builder: the admin host has a default route or none, and A
\* and B register, once or twice, with network facts of every kind: in the
\* admin's subnet or another one, behind the admin's gateway, behind another
\* one or behind none, or with no address at all.
NetInputs ==
    {[ip |-> 261, subnet_cidr |-> subnet, default_gateway_ip |-> gw] : subnet \in {1, 2}, gw \in {0, 257}}
        \cup {[ip |-> 517, subnet_cidr |-> 0, default_gateway_ip |-> 513], NoNetwork}

AtlasStep(s) ==
    \/ Quiet /\ Connect(s)
    \/ \E net \in NetInputs :
          Quiet /\ RecvRegister(s, [RegisterPayload(SessionAgent(s), pair_token) EXCEPT !.network = net, !.ips = IF net.ip = 0 THEN <<>> ELSE <<net.ip>>])
    \/ RegReply(s) \/ RegUpsert(s)

NextAtlas ==
    \/ StartStep
    \/ \E p \in Procs : EmitterStep(p)
    \/ \E s \in Sessions : AtlasStep(s)

SpecAtlas == InitWith(AdminFacts) /\ [][NextAtlas]_vars

\* Agent clocks: A pairs and sends heartbeats whose last_seen is absent (0)
\* or is a reading of A's own clock, which started at A's boot, while the
\* server's clock moves by 1 ms or past the timeout and the watchdog sweeps.
SkewStep(s) ==
    \/ Quiet /\ Connect(s)
    \/ Quiet /\ sess[s].registered_agent_id = "none" /\ RecvRegister(s, RegisterPayload(SessionAgent(s), pair_token))
    \/ RegReply(s) \/ RegUpsert(s)
    \/ \E last_seen \in {0, 1} : Quiet /\ RecvHeartbeat(s, HeartbeatPayload(SessionAgent(s), "", last_seen))

NextSkew ==
    \/ StartStep
    \/ \E p \in Procs : EmitterStep(p)
    \/ SkewStep("s1")
    \/ (Quiet /\ WdSweep) \/ WdGet
    \/ \E d \in {1, HEARTBEAT_TIMEOUT_MS + 1} : Quiet /\ Tick(d)

SpecSkew == InitWith({[ip |-> 258, subnet_cidr |-> 1, default_gateway_ip |-> 257]}) /\ [][NextSkew]_vars

\* ---------------------------------------------------------------- claims
\* The steps that send on a channel or emit a UI event.
IoSteps == {"log_emit", "upsert_emit", "snapshot_emit", "task_update_emit", "status_emit", "act_emit", "topo_emit", "reg_reply", "dispatch_send"}

\* C1: no task sends on a channel or emits a UI event while it holds the
\* State Store mutex.
C1_NoSendOrEmitUnderLock == \A p \in Procs : (todo[p] # <<>> /\ Head(todo[p]).op \in IoSteps) => mutex # p

\* C2: once the watchdog has marked agent a offline for its silence, the
\* forced device_upsert for a is emitted by the watchdog (the
\* device_disconnected activity and the next sweep come after it).
C2_TimeoutIsAnnounced ==
    \A a \in Agents :
        (At("wd", "wd_get") /\ Head(Cur("wd").ids) = a /\ devices[a].status = "offline")
        ~> (ui_last.name = "device_upsert" /\ ui_last.by = "wd" /\ ui_last.a = a)

\* C3: whenever nobody holds the mutex, a device is offline exactly when it
\* has no connections entry, and every connections key names a device that
\* is not offline.
C3_OfflineIffDisconnected ==
    Free => /\ \A a \in DOMAIN devices : devices[a].status = "offline" <=> a \notin DOMAIN connections
            /\ \A a \in DOMAIN connections : a \in DOMAIN devices /\ devices[a].status # "offline"

\* C4: a task is done or failed exactly when it has as many results as
\* assigned agents, and then its ended_at is set.
C4_TerminalIffAllReported ==
    \A id \in DOMAIN tasks :
        /\ tasks[id].status \in {"done", "failed"} <=> Len(tasks[id].results) = Len(tasks[id].assigned_agents)
        /\ Len(tasks[id].results) = Len(tasks[id].assigned_agents) => tasks[id].ended_at # NoneTs

\* C5: a task's status only moves queued -> running -> done or failed: it
\* never leaves done or failed, and never becomes done or failed from queued.
C5_StatusOnlyAdvances ==
    [][\A id \in DOMAIN tasks :
          \/ tasks'[id].status = tasks[id].status
          \/ tasks[id].status = "queued" /\ tasks'[id].status = "running"
          \/ tasks[id].status = "running" /\ tasks'[id].status \in {"done", "failed"}]_vars

\* C6: the task_result that brings the number of results to the number of
\* assigned agents sets the status to done when every stored result is ok and
\* to failed otherwise, and sets ended_at to the handler's clock reading, in
\* the same step.
C6_CompletionSetsStatus ==
    [][\A id \in DOMAIN tasks :
          (tasks'[id].results # tasks[id].results /\ Len(tasks'[id].results) = Len(tasks'[id].assigned_agents))
          => /\ tasks'[id].status = (IF \A i \in 1..Len(tasks'[id].results) : tasks'[id].results[i].ok THEN "done" ELSE "failed")
             /\ tasks'[id].ended_at = now]_vars

\* A task of two agents failed on one ok and one failed result.
C6_Witness == \E id \in DOMAIN tasks : tasks[id].status = "failed" /\ Len(tasks[id].results) = 2 /\ Len(tasks[id].assigned_agents) = 2 /\ tasks[id].results[1].ok # tasks[id].results[2].ok

\* C7: the fan-out queues exactly one task frame on the channel of every
\* agent that is assigned and connected and none on any other channel, and
\* the task is started (marked running) only if a send succeeded.
C7_OneFramePerConnectedAgent ==
    [][(At("ui", "dispatch_send") /\ todo'["ui"] # todo["ui"])
       => LET task == Cur("ui").task
              assigned == {task.assigned_agents[i] : i \in 1..Len(task.assigned_agents)}
          IN  /\ \A s \in Sessions : Len(chan'[s]) - Len(chan[s]) = (IF \E a \in assigned : a \in DOMAIN connections /\ connections[a] = s THEN 1 ELSE 0)
              /\ todo'["ui"][2].ok => chan' # chan]_vars

\* C8: dispatch_task with no agents or with an unsupported kind returns its
\* error and changes nothing: no task record, no frame, no event.
C8_InvalidDispatchRejected ==
    [][(cmds' # cmds /\ cmd'.op = "dispatch_task" /\ (cmd'.agents = <<>> \/ cmd'.kind \notin {"ping", "port_scan", "arp_snapshot"}))
       => /\ cmd'.ret = (IF cmd'.agents = <<>> THEN "at least one agent is required" ELSE "unsupported task kind")
          /\ UNCHANGED <<store, next_id, todo, chan, sock_out, ui_last, ui_count, emitted, dev_writes>>]_vars

\* Both errors have been returned with no task on record.
C8_Witness == cmd.op = "dispatch_task" /\ cmd.ret = "unsupported task kind" /\ tasks = <<>> /\ Paired

\* A step of the handler of socket s.
HandlerStep(s) == todo'[s] # todo[s] \/ sess'[s] # sess[s]

\* The register frame's secret is compared with the token of that moment.
SecretChecked(s) == (todo[s] = <<>> /\ At(s, "reg_reply")') => (Cur(s).ok' <=> Cur(s).pl.secret' = pair_token)

\* C9 as stated: a register frame with a wrong secret never changes the State
\* Store (no device record created or modified, no connections or
\* device_order entry added) and the connection closes.
C9_BadSecretChangesNothing ==
    [][\A s \in Sessions :
          /\ SecretChecked(s)
          /\ (sess'[s].auth_failed /\ HandlerStep(s)) => (sess'[s].state = "closing" /\ UNCHANGED <<devices, device_order, connections>>)]_vars

\* C9 made precise: the frame is refused and the connection closes; no device
\* record is created and nothing is added to connections or device_order; on
\* a socket that had not registered the State Store does not change at all,
\* and on a socket registered as agent x the close is the normal teardown:
\* x's connections entry goes and x's record becomes offline, last seen now.
C9_BadSecretOnlyTearsDown ==
    [][\A s \in Sessions :
          /\ SecretChecked(s)
          /\ (sess'[s].auth_failed /\ HandlerStep(s)) =>
                LET x == sess[s].registered_agent_id
                IN  /\ sess'[s].state = "closing"
                    /\ DOMAIN devices' = DOMAIN devices /\ device_order' = device_order
                    /\ x = "none" => UNCHANGED store
                    /\ x # "none" =>
                          /\ UNCHANGED <<online, pair_token, tasks>>
                          /\ \A a \in DOMAIN devices \ {x} : devices'[a] = devices[a]
                          /\ devices'[x] \in {devices[x], [devices[x] EXCEPT !.status = "offline", !.last_seen_ms = now]}
                          /\ connections' \in {connections, Remove(connections, x)}]_vars

\* A registered socket was refused and its agent's record went offline, and a
\* socket that never registered was refused.
C9_Witness ==
    /\ \E s \in Sessions : sess[s].auth_failed /\ Closed(s) /\ sess[s].registered_agent_id # "none" /\ devices[sess[s].registered_agent_id].status = "offline"
    /\ \E s \in Sessions : sess[s].auth_failed /\ Closed(s) /\ sess[s].registered_agent_id = "none"

\* C10: when a socket is closed for a wrong secret, the reply with ok false
\* has been written to it.
C10_ReplyBeforeClose ==
    \A s \in Sessions : (sess[s].auth_failed /\ Closed(s)) => \E i \in 1..Len(sock_out[s]) : sock_out[s][i].type = "registered" /\ ~sock_out[s][i].ok


\* Task p takes a step of its own code.
Steps(p) == todo'[p] # todo[p]

\* Some task still has to run the step op of kind k for agent a.
Pending(op, k, a) == \E p \in Procs : \E i \in 1..Len(todo[p]) : todo[p][i].op \in op /\ todo[p][i].kind = k /\ todo[p][i].a = a
\* The activity ring holds an entry of kind k for agent a.
Recorded(k, a) == \E i \in 1..Len(activity) : activity[i].kind = k /\ activity[i].agent_id = a
ActivitySteps == {"act_now", "act_check", "act_insert", "act_emit"}
\* The agents with a host node in the stored topology.
HostsOf(snapshot) == {snapshot.nodes[i].agent_id : i \in {j \in 1..Len(snapshot.nodes) : snapshot.nodes[j].id = NodeId("host", 0, snapshot.nodes[j].agent_id)}}

\* The parts of C11 that hold as stated: the critical section of an accepted
\* register, the forced device_upsert and the rebuilt topology.
RegisterInstalls(s) ==
    /\ (At(s, "reg_upsert") /\ Steps(s)) =>
          LET a == Cur(s).a
          IN  /\ a \in DOMAIN devices' /\ devices'[a].status = "online" /\ devices'[a].last_seen_ms = now
              /\ a \in DOMAIN connections' /\ connections'[a] = s
              /\ Pending({"upsert_now"}, "", a)' /\ Pending({"topo_rebuild"}, "", "none")'
              /\ a \notin DOMAIN devices => Pending(ActivitySteps, "device_connected", a)'
    /\ (At(s, "upsert_lock") /\ Cur(s).force /\ Steps(s)) => At(s, "upsert_emit")'
    /\ (At(s, "upsert_emit") /\ Steps(s)) => (ui_last'.name = "device_upsert" /\ ui_last'.a = Cur(s).a /\ ui_count' = ui_count + 1)
    /\ (At(s, "topo_rebuild") /\ Steps(s)) => DOMAIN devices \subseteq HostsOf(topology_snapshot')

RegisteredReply == [type |-> "registered", ok |-> TRUE, task_id |-> 0, kind |-> ""]

C12_DeviceOrderIsStable ==
    [][/\ \A i, j \in 1..Len(device_order') : device_order'[i] = device_order'[j] => i = j
       /\ Range(device_order') = DOMAIN devices'
       /\ DOMAIN devices \subseteq DOMAIN devices'
       /\ Len(device_order) <= Len(device_order') /\ SubSeq(device_order', 1, Len(device_order)) = device_order
       /\ \A a \in DOMAIN devices : devices'[a].first_seen_ms = devices[a].first_seen_ms
       /\ \A a \in DOMAIN devices' \ DOMAIN devices :
             /\ device_order' = Append(device_order, a) /\ devices'[a].first_seen_ms = now
             /\ \E s \in Sessions : At(s, "reg_upsert") /\ Cur(s).a = a /\ Cur(s).ok /\ Steps(s)]_vars

\* B paired before A; A registered twice on its socket, the second time at a
\* later clock reading, and the watchdog has swept.
C12_Witness ==
    /\ device_order = <<"B", "A">> /\ sweeps = 1
    /\ Len(SelectSeq(sock_out["s1"], LAMBDA m : m = RegisteredReply)) = 2
    /\ devices["A"].first_seen_ms < devices["A"].last_seen_ms

\* C13: the steps of rotate_pair_token replace the pair token once and push
\* one log entry; they leave the connections map, the device records, the
\* task records and every socket's session, channel and writer as they were.
C13_RotateChangesOnlyToken ==
    [][(Steps("ui") /\ cmd'.op = "rotate_pair_token") =>
          /\ UNCHANGED <<online, devices, device_order, tasks, activity, connections, last_device_emit_ms, last_activity_emit_ms, topology_snapshot, topology_key, admin_network>>
          /\ UNCHANGED <<sess, chan, rx_alive, sock_out>>
          /\ cmds' # cmds => (pair_token' # pair_token /\ logs' = logs)
          /\ cmds' = cmds => (pair_token' = pair_token /\ (logs' = logs \/ (Tail(logs') = logs /\ logs'[1].message = "Pair token rotated")))
          /\ cmd'.ret = "ok" => \E i \in 1..Len(logs) : logs[i].message = "Pair token rotated"]_vars

\* The token was rotated while agent A's socket was open and registered, and
\* the socket is still open and A's channel still installed.
C13_Witness ==
    /\ cmd.op = "rotate_pair_token" /\ cmd.ret = "ok" /\ pair_token # 1
    /\ sess["s1"].state = "open" /\ sess["s1"].registered_agent_id = "A"
    /\ "A" \in DOMAIN connections /\ connections["A"] = "s1" /\ devices["A"].status = "online"

RefusedReply == [type |-> "registered", ok |-> FALSE, task_id |-> 0, kind |-> ""]

\* C14: a register is accepted exactly when its secret equals the pair token
\* at the moment of the check, on a fresh socket and on a registered one: an
\* accepted frame is answered ok and installs the agent, a refused one is
\* answered not ok and ends the session; a rotated token differs from the one
\* before, so after a rotation the old token is refused and the new accepted.
C14_AcceptedIffTokenMatches ==
    [][/\ pair_token' # pair_token => (pair_token' > pair_token /\ cmd'.op = "rotate_pair_token")
       /\ \A s \in Sessions :
             /\ (todo[s] = <<>> /\ At(s, "reg_reply")') => (Cur(s).ok' <=> Cur(s).pl.secret' = pair_token)
             /\ (At(s, "reg_reply") /\ Steps(s)) =>
                   IF Cur(s).ok
                   THEN chan'[s] = Append(chan[s], RegisteredReply) /\ At(s, "reg_upsert")' /\ sess'[s].state = "open"
                   ELSE chan'[s] = Append(chan[s], RefusedReply) /\ sess'[s].state = "closing" /\ ~Pending({"reg_upsert"}, "", Cur(s).a)'
             /\ (At(s, "reg_upsert") /\ Steps(s)) => (sess'[s].registered_agent_id = Cur(s).a /\ connections'[Cur(s).a] = s)
             /\ sess'[s].registered_agent_id # sess[s].registered_agent_id => (At(s, "reg_upsert") /\ Cur(s).ok)]_vars

\* After a completed rotation a registered socket presents the token of
\* before and is being refused, while the other agent is registered too.
C14_Witness ==
    /\ cmd.op = "rotate_pair_token" /\ cmd.ret = "ok" /\ pair_token = 2
    /\ \E s \in Sessions :
          /\ At(s, "reg_reply") /\ ~Cur(s).ok /\ Cur(s).pl.secret = 1 /\ sess[s].registered_agent_id # "none"
          /\ \E r \in Sessions \ {s} : sess[r].registered_agent_id # "none"

\* The frames C15 lists: one that does not parse, a heartbeat or task_result
\* on a socket that has not registered, a type the server does not know, a
\* task_result for a task id that is not on record.
ListedAsIgnored(s, shape, type, pl) ==
    \/ shape # "ok"
    \/ type \in {"heartbeat", "task_result"} /\ sess[s].registered_agent_id = "none"
    \/ type \notin {"register", "heartbeat", "task_result"}
    \/ type = "task_result" /\ pl.task_id \notin DOMAIN tasks

\* C15: reading an ignored frame changes neither the State Store nor the
\* socket's registration, channel or writer, queues and emits nothing, and
\* leaves the read loop waiting for the next frame.
C15_IgnoredFramesChangeNothing ==
    [][\A s \in Sessions, shape \in FrameShapes, type \in FrameTypes :
          (ListedAsIgnored(s, shape, type, FramePayload(s, shape, type)) /\ RecvFrame(s, shape, type, FramePayload(s, shape, type)))
          => /\ UNCHANGED <<store, next_id, todo, chan, rx_alive, sock_out, ui_last, ui_count, emitted, dev_writes>>
             /\ sess' = [sess EXCEPT ![s].frames = sess[s].frames + 1]
             /\ sess'[s].state = "open" /\ todo'[s] = <<>>]_vars

\* Socket s1 has read two frames, both ignored: it is still open and
\* unregistered and agent A is not on record, while B has paired on s2.
C15_Witness ==
    /\ Quiet /\ sess["s1"].frames = 2 /\ sess["s1"].state = "open" /\ sess["s1"].registered_agent_id = "none"
    /\ DOMAIN devices = {"B"} /\ sess["s2"].frames = 2 /\ sess["s2"].registered_agent_id = "B"

\* C16: a heartbeat handled on a registered socket stores the payload's
\* last_seen as the device's last_seen_ms when it is > 0 and the handler's
\* clock reading when it is <= 0.
C16_HeartbeatLastSeen ==
    [][\A s \in Sessions, pl \in HeartbeatInputs :
          RecvHeartbeat(s, pl) =>
              devices'[sess[s].registered_agent_id].last_seen_ms = (IF pl.last_seen > 0 THEN pl.last_seen ELSE now)]_vars

\* A heartbeat with last_seen 1 was handled: A's record says last seen at 1,
\* long before it was first seen by the server's clock.
C16_Witness == "A" \in DOMAIN devices /\ devices["A"].last_seen_ms = 1 /\ devices["A"].first_seen_ms = StartTime /\ sess["s1"].frames = 2

TransitionKinds == {"device_status_changed", "internet_status_changed", "dns_status_changed"}

\* C17: a heartbeat handled on a registered socket stamps the change time of
\* internet_reachable and dns_ok when they change and calls for one activity
\* event per changed field (status, internet_reachable, dns_ok), and every
\* such event is recorded in the activity ring and emitted, also when two or
\* three fields change in one heartbeat.
C17_EveryTransitionIsAnnounced ==
    [][/\ \A s \in Sessions, pl \in HeartbeatInputs :
             RecvHeartbeat(s, pl) =>
                 LET a == sess[s].registered_agent_id
                 IN  /\ devices'[a].status # devices[a].status => Pending(ActivitySteps, "device_status_changed", a)'
                     /\ devices'[a].internet_reachable # devices[a].internet_reachable =>
                           (devices'[a].last_internet_change_ms = now /\ Pending(ActivitySteps, "internet_status_changed", a)')
                     /\ devices'[a].dns_ok # devices[a].dns_ok =>
                           (devices'[a].last_dns_change_ms = now /\ Pending(ActivitySteps, "dns_status_changed", a)')
       /\ \A a \in Agents, k \in TransitionKinds :
             Pending(ActivitySteps, k, a) => (Pending(ActivitySteps, k, a)' \/ Recorded(k, a)')
       /\ \A p \in Procs : (At(p, "act_emit") /\ Steps(p)) => (ui_last'.name = "activity_event" /\ ui_last'.status = Cur(p).kind /\ ui_last'.a = Cur(p).a)]_vars

\* C18: the sweep sets to offline exactly the devices that are not offline
\* and were last seen more than 20000 ms before the sweep's clock reading,
\* and leaves every other record (one that is exactly 20000 ms old, one that
\* is offline already) as it is; it lists the devices it has marked.
C18_SweepMarksOnlyTheStale ==
    [][sweeps' # sweeps =>
          /\ DOMAIN devices' = DOMAIN devices
          /\ \A a \in DOMAIN devices :
                devices'[a] = (IF devices[a].status # "offline" /\ now - devices[a].last_seen_ms > 20000
                               THEN [devices[a] EXCEPT !.status = "offline"] ELSE devices[a])
          /\ IF At("wd", "wd_get")'
             THEN Range(Cur("wd").ids') = {a \in DOMAIN devices : devices'[a] # devices[a]}
             ELSE devices' = devices]_vars

\* One sweep found A 20001 ms old and marked it, and left B, exactly
\* 20000 ms old, online.
C18_Witness ==
    /\ At("wd", "wd_get") /\ Cur("wd").ids = <<"A">> /\ devices["A"].status = "offline" /\ now - devices["A"].last_seen_ms = 20001
    /\ "B" \in DOMAIN devices /\ devices["B"].status = "online" /\ now - devices["B"].last_seen_ms = 20000

\* The parts of C19 that hold as stated: the end of a registered session
\* runs on_agent_disconnect, whose critical section removes the agent's
\* connections entry and sets the record offline, last seen now; the forced
\* device_upsert goes out and the topology is rebuilt.
TeardownInstalls(s) ==
    /\ (sess[s].state = "open" /\ sess'[s].state = "closing" /\ sess[s].registered_agent_id # "none") =>
          Pending({"disconnect"}, "", sess[s].registered_agent_id)'
    /\ (At(s, "disconnect") /\ Steps(s)) =>
          LET a == Cur(s).a
          IN  /\ a \notin DOMAIN connections'
              /\ devices'[a].status = "offline" /\ devices'[a].last_seen_ms = now
              /\ \A b \in DOMAIN devices \ {a} : devices'[b] = devices[b]
              /\ Pending({"upsert_now"}, "", a)' /\ Pending(ActivitySteps, "device_disconnected", a)' /\ Pending({"topo_rebuild"}, "", "none")'
    /\ (At(s, "upsert_lock") /\ Cur(s).force /\ Steps(s)) => At(s, "upsert_emit")'
    /\ (At(s, "upsert_emit") /\ Steps(s)) => (ui_last'.name = "device_upsert" /\ ui_last'.a = Cur(s).a /\ ui_last'.status = Cur(s).dev.status)
    /\ (At(s, "topo_rebuild") /\ Steps(s)) => topology_key' = topology_key_of(build_topology_snapshot(devices, device_order, admin_network, 0, 0))
    /\ (At(s, "act_insert") /\ Cur(s).kind = "device_disconnected" /\ Steps(s)) => Recorded("device_disconnected", Cur(s).a)'

\* C19 as stated: the teardown of a registered session removes the channel,
\* marks the device offline and last seen now in one critical section, then
\* emits the forced device_upsert and the device_disconnected activity and
\* rebuilds the topology.
C19_TeardownEffects ==
    [][\A s \in Sessions :
          /\ TeardownInstalls(s)
          /\ (At(s, "act_check") /\ Cur(s).kind = "device_disconnected" /\ Steps(s)) => At(s, "act_insert")']_vars

\* C19 made precise: as stated, except that the device_disconnected activity
\* is dropped when an activity event of the same agent was emitted less than
\* 5000 ms before.
C19_TeardownEffectsRateLimited ==
    [][\A s \in Sessions :
          /\ TeardownInstalls(s)
          /\ (At(s, "act_check") /\ Cur(s).kind = "device_disconnected" /\ Steps(s)) =>
                IF Cur(s).t - Get(last_activity_emit_ms, Cur(s).a, 0) < DEVICE_ACTIVITY_RATE_MS
                THEN todo'[s] = Tail(todo[s]) /\ activity' = activity
                ELSE At(s, "act_insert")']_vars

\* A's socket closed long after A paired: A has no channel, its record is
\* offline and last seen at the close, and the device_disconnected activity
\* is on record.
C19_Witness ==
    /\ Quiet /\ Closed("s1") /\ sess["s1"].registered_agent_id = "A"
    /\ "A" \notin DOMAIN connections /\ devices["A"].status = "offline" /\ devices["A"].last_seen_ms > devices["A"].first_seen_ms
    /\ Recorded("device_disconnected", "A") /\ upsert_emitted_ms["A"] = devices["A"].last_seen_ms

\* C20: a device_upsert that was not requested with force is emitted at least
\* 1000 ms after the previous device_upsert emission for the same agent, and a
\* call with force always emits.
C20_UnforcedUpsertsAreSpaced ==
    [][\A p \in Procs :
          /\ (At(p, "upsert_emit") /\ Steps(p) /\ ~Cur(p).force /\ Cur(p).a \in DOMAIN upsert_emitted_ms) =>
                now - upsert_emitted_ms[Cur(p).a] >= DEVICE_EMIT_THROTTLE_MS
          /\ (At(p, "upsert_lock") /\ Steps(p) /\ Cur(p).force) => At(p, "upsert_emit")']_vars

\* C21: an activity event that passed the rate limit is merged into the
\* newest ring entry when that entry has its kind and agent and is at most
\* 30 s old (ts becomes now, count goes from absent to 2 or from n to n+1,
\* nothing is appended); otherwise one new entry without count is pushed at
\* the front.
C21_CoalesceOrPush ==
    [][\A p \in Procs : (At(p, "act_insert") /\ Steps(p)) =>
          LET k == Cur(p).kind
              a == Cur(p).a
              t == Cur(p).t
          IN  IF activity # <<>> /\ activity[1].kind = k /\ activity[1].agent_id = a /\ t - activity[1].ts <= 30000
              THEN /\ Len(activity') = Len(activity) /\ Tail(activity') = Tail(activity)
                   /\ activity'[1] = [activity[1] EXCEPT !.ts = t, !.count = IF activity[1].count = NoneTs THEN 2 ELSE activity[1].count + 1]
              ELSE /\ Len(activity') = Len(activity) + 1 /\ Tail(activity') = activity
                   /\ activity'[1].kind = k /\ activity'[1].agent_id = a /\ activity'[1].ts = t /\ activity'[1].count = NoneTs]_vars

\* Three pings were dispatched to A, the last one exactly 30 s after the
\* second: one task_started entry with count 3 sits in front of A's
\* device_connected.
C21_Witness ==
    /\ Len(activity) = 2 /\ activity[1].kind = "task_started" /\ activity[1].count = 3
    /\ activity[1].ts = StartTime + ACTIVITY_DEDUPE_MS /\ activity[2].kind = "device_connected"

\* C22: an activity event of an agent is recorded and emitted only when the
\* previous one of that agent is at least 5 s old, whichever tasks call the
\* emitter at the same time; an event inside the window is dropped and leaves
\* the ring as it is.
C22_OneActivityPerWindow ==
    [][\A p \in Procs :
          /\ (At(p, "act_insert") /\ Steps(p) /\ Cur(p).a # "none" /\ Cur(p).a \in DOMAIN last_activity_emit_ms) =>
                Cur(p).t - last_activity_emit_ms[Cur(p).a] >= DEVICE_ACTIVITY_RATE_MS
          /\ (At(p, "act_check") /\ Steps(p) /\ Cur(p).t - Get(last_activity_emit_ms, Cur(p).a, 0) < DEVICE_ACTIVITY_RATE_MS) =>
                (todo'[p] = Tail(todo[p]) /\ activity' = activity /\ ui_count' = ui_count)]_vars

\* The candidate a rebuild would build now differs in its structural key
\* from the stored one.
KeyWouldChange == topology_key_of(build_topology_snapshot(devices, device_order, admin_network, topology_snapshot.revision + 1, now)) # topology_key

\* C23: the stored revision never decreases; a rebuild step whose candidate
\* has another structural key than the stored one raises it by one and stores
\* the candidate and its key, and every other step leaves snapshot, revision
\* and key as they are.
C23_RevisionFollowsKey ==
    [][/\ topology_snapshot'.revision >= topology_snapshot.revision
       /\ IF KeyWouldChange /\ \E p \in Procs : At(p, "topo_rebuild") /\ Steps(p)
          THEN /\ topology_snapshot'.revision = topology_snapshot.revision + 1
               /\ topology_key' # topology_key
               /\ topology_key' = topology_key_of(topology_snapshot')
          ELSE topology_snapshot' = topology_snapshot /\ topology_key' = topology_key]_vars

\* The start, A's pairing and B's pairing each raised the revision; the
\* rebuild after A's socket closed left it at 3.
C23_Witness ==
    /\ Quiet /\ topology_snapshot.revision = 3 /\ Closed("s1")
    /\ "A" \in DOMAIN devices /\ devices["A"].status = "offline" /\ "B" \in DOMAIN devices

\* The structural key of the topology built from the device map devs.
KeyOf(devs) == topology_key_of(build_topology_snapshot(devs, device_order, admin_network, topology_snapshot.revision + 1, now))

\* C24: a heartbeat of a device with a reported gateway that carries only
\* metrics, with the network facts the device has or with none, leaves the
\* structural key as it is: when the stored key was up to date before the
\* heartbeat, the rebuild that follows finds no change, emits nothing and
\* keeps the revision.
C24_MetricsHeartbeatKeepsTopology ==
    [][\A s \in Sessions, pl \in HeartbeatInputs :
          (/\ pl.status = ""
           /\ sess[s].registered_agent_id # "none"
           /\ devices[sess[s].registered_agent_id].default_gateway_ip # 0
           /\ topology_key = KeyOf(devices)
           /\ RecvHeartbeat(s, pl)) =>
                LET a == sess[s].registered_agent_id
                IN  /\ devices' = [devices EXCEPT ![a] = HeartbeatDevice(devices[a], pl, now)]
                    /\ topology_key = KeyOf([devices EXCEPT ![a] = HeartbeatDevice(devices[a], pl, now)])]_vars

\* C25: each topology emission carries a snapshot whose structural key
\* differs from the key of the emission before it and whose revision is
\* higher, however the rebuilds of several tasks interleave.
C25_TopologyEmissionsDiffer ==
    [][\A p \in Procs : (At(p, "topo_emit") /\ Steps(p)) =>
          /\ topology_key_of(Cur(p).snap) # topo_emitted.key
          /\ Cur(p).snap.revision > topo_emitted.rev]_vars

\* The records of agent a in a results list.
ResultsOf(results, a) == SelectSeq(results, LAMBDA r : r.agent_id = a)

\* C26: a task's results hold at most one record per agent; a task_result of
\* an agent that has reported on the task before replaces its record and
\* leaves the number of results and the other agents' records as they are.
C26_OneResultPerAgent ==
    /\ [](\A id \in DOMAIN tasks : \A a \in Agents : Len(ResultsOf(tasks[id].results, a)) <= 1)
    /\ [][\A s \in Sessions, id \in DOMAIN tasks, ok \in BOOLEAN :
             LET a == sess[s].registered_agent_id
             IN  (RecvTaskResult(s, TaskResultPayload(id, ok)) /\ ResultsOf(tasks[id].results, a) # <<>>) =>
                    /\ Len(tasks'[id].results) = Len(tasks[id].results)
                    /\ ResultsOf(tasks'[id].results, a) = <<[agent_id |-> a, ok |-> ok, ts |-> now]>>
                    /\ \A b \in Agents \ {a} : ResultsOf(tasks'[id].results, b) = ResultsOf(tasks[id].results, b)]_vars

\* One ping for A and B is on record; both sockets of A have reported on it,
\* the second time with a failure: the task holds one result, the failure.
C26_Witness ==
    /\ Quiet /\ Cardinality(DOMAIN tasks) = 1
    /\ \A s \in Sessions : sess[s].registered_agent_id = "A" /\ sess[s].frames = 2
    /\ \E id \in DOMAIN tasks :
          /\ tasks[id].assigned_agents = <<"A", "B">> /\ tasks[id].status = "running"
          /\ Len(tasks[id].results) = 1 /\ tasks[id].results[1].agent_id = "A" /\ ~tasks[id].results[1].ok

\* C27: once a task record exists, no step removes it from the task map or
\* changes its task_id, kind or assigned_agents.
C27_TaskIdentityIsFixed ==
    [][\A id \in DOMAIN tasks :
          /\ id \in DOMAIN tasks'
          /\ tasks'[id].task_id = tasks[id].task_id
          /\ tasks'[id].kind = tasks[id].kind
          /\ tasks'[id].assigned_agents = tasks[id].assigned_agents
          /\ tasks'[id].created_at = tasks[id].created_at]_vars

\* Two pings for A are on record, the first one reported on and done, the
\* second one dispatched after A's socket had closed and still queued.
C27_Witness ==
    /\ Quiet /\ Closed("s1") /\ "A" \in DOMAIN devices /\ devices["A"].status = "offline"
    /\ \E i, j \in DOMAIN tasks :
          /\ i < j /\ tasks[i].task_id = i /\ tasks[j].task_id = j
          /\ tasks[i].status = "done" /\ tasks[j].status = "queued"
          /\ tasks[i].assigned_agents = <<"A">> /\ tasks[j].assigned_agents = <<"A">>

\* The smaller of two numbers.
Min(x, y) == IF x < y THEN x ELSE y

\* C28: the log ring never holds more than 400 entries and the activity ring
\* never more than 200; an insertion puts the new entry at the front, keeps
\* the order of the others and, at capacity, discards from the back.
C28_RingsAreBounded ==
    /\ [](Len(logs) <= 400 /\ Len(activity) <= 200)
    /\ [][/\ IF \E p \in Procs : At(p, "log_push") /\ Steps(p)
             THEN /\ Len(logs') = Min(Len(logs) + 1, 400)
                  /\ logs'[1].id = next_id
                  /\ Tail(logs') = SubSeq(logs, 1, Len(logs') - 1)
             ELSE logs' = logs
          /\ IF \E p \in Procs : At(p, "act_insert") /\ Steps(p)
             THEN \/ /\ Len(activity') = Min(Len(activity) + 1, 200)
                     /\ activity'[1].id = next_id
                     /\ Tail(activity') = SubSeq(activity, 1, Len(activity') - 1)
                  \/ /\ activity # <<>> /\ Len(activity') = Len(activity)
                     /\ activity'[1].id = activity[1].id
                     /\ Tail(activity') = Tail(activity)
             ELSE activity' = activity]_vars

\* Both rings were full when the server started: each is still at its
\* capacity, with entries of this run in front and its oldest entries gone.
C28_Witness ==
    /\ Quiet /\ sess["s1"].registered_agent_id = "A"
    /\ Len(logs) = MAX_LOGS /\ logs[1].id > 0 /\ logs[MAX_LOGS].id > -MAX_LOGS /\ logs[MAX_LOGS].id < 0
    /\ Len(activity) = MAX_ACTIVITY /\ activity[1].id > 0 /\ activity[MAX_ACTIVITY].id = 1 - MAX_ACTIVITY

RECURSIVE IsSubsequence(_, _)
\* The sequence xs is ys with some elements left out.
IsSubsequence(xs, ys) ==
    IF xs = <<>> THEN TRUE
    ELSE IF ys = <<>> THEN FALSE
    ELSE IF Head(xs) = Head(ys) THEN IsSubsequence(Tail(xs), Tail(ys))
    ELSE IsSubsequence(xs, Tail(ys))

\* C29: for each device, the status values its device_upsert events have
\* shown are, in this order, a subsequence of the status values written to
\* its record, whatever sessions of the agent interleave.
C29_UpsertsFollowTheStore ==
    \A a \in DOMAIN upsert_shown : IsSubsequence(upsert_shown[a], Get(dev_writes, a, <<>>))

\* C30: the step that ends a dispatch and every task_result recorded for a
\* known task queue a task_update of the stored record, and the activity of
\* a terminal task_result (task_completed, task_failed) is never dropped by
\* the rate check: it goes on to be recorded and emitted.
C30_TaskEventsAreEmitted ==
    [][/\ (At("ui", "dispatch_update") /\ Steps("ui")) =>
            At("ui", "task_update_emit")' /\ Cur("ui")'.task = tasks'[Cur("ui").task.task_id]
       /\ \A s \in Sessions : \A id \in DOMAIN tasks :
            (Reading(s) /\ tasks'[id] # tasks[id] /\ Steps(s)) =>
                At(s, "task_update_emit")' /\ Cur(s)'.task = tasks'[id]
       /\ \A p \in Procs :
            (At(p, "act_check") /\ Cur(p).kind \in {"task_completed", "task_failed"} /\ Steps(p)) =>
                At(p, "act_insert")']_vars

\* C31: the critical section of a watchdog sweep writes nothing but the
\* status of the devices it marks: the connections map and the channels,
\* device_order, every other field of every device, the tasks and the
\* stored topology snapshot and key are as before the sweep.
C31_SweepWritesOnlyStatus ==
    [][sweeps' # sweeps =>
          /\ connections' = connections /\ chan' = chan /\ rx_alive' = rx_alive
          /\ device_order' = device_order
          /\ tasks' = tasks
          /\ topology_snapshot' = topology_snapshot /\ topology_key' = topology_key
          /\ DOMAIN devices' = DOMAIN devices
          /\ \A a \in DOMAIN devices :
                /\ [devices'[a] EXCEPT !.status = devices[a].status] = devices[a]
                /\ devices'[a].status \in {devices[a].status, "offline"}]_vars

\* A sweep has just marked A, which still has its channel registered and a
\* task on record.
C31_Witness ==
    /\ At("wd", "wd_get") /\ Cur("wd").ids = <<"A">> /\ mutex = "none"
    /\ devices["A"].status = "offline" /\ devices["A"].last_seen_ms < now - HEARTBEAT_TIMEOUT_MS
    /\ "A" \in DOMAIN connections /\ tasks # <<>>

\* The snapshot the builder makes of the present device map and admin facts.
Built == build_topology_snapshot(devices, device_order, admin_network, 0, 0)
\* Some task runs rebuild_topology_if_changed, which applies the builder.
Rebuilds == \E p \in Procs : At(p, "topo_rebuild") /\ Steps(p)
NodesOf(snapshot, ty) == {i \in 1..Len(snapshot.nodes) : snapshot.nodes[i].node_type = ty}
\* The subnets known of the devices and of the admin host.
ObservedSubnets == ({devices[a].subnet_cidr : a \in DOMAIN devices} \cup {admin_network.subnet_cidr}) \ {0}

\* C32: the builder makes subnet nodes exactly when more than one subnet is
\* observed among the devices and the admin host: then one subnet node per
\* observed subnet, and from every gateway node with a known subnet an
\* evidence edge to that subnet's node; otherwise no subnet node and no edge
\* to a subnet.
C32_SubnetNodesIffSeveralSubnets ==
    [][Rebuilds => \A b \in {Built} :
          IF Cardinality(ObservedSubnets) > 1
          THEN /\ \A sn \in ObservedSubnets :
                     Cardinality({i \in NodesOf(b, "subnet") : b.nodes[i].id = NodeId("subnet", sn, "") /\ b.nodes[i].subnet_cidr = sn}) = 1
               /\ Cardinality(NodesOf(b, "subnet")) = Cardinality(ObservedSubnets)
               /\ \A i \in NodesOf(b, "gateway") :
                     b.nodes[i].subnet_cidr # 0 =>
                         Cardinality({k \in 1..Len(b.edges) : b.edges[k] = Edge(b.nodes[i].id, NodeId("subnet", b.nodes[i].subnet_cidr, ""), "evidence")}) = 1
          ELSE /\ NodesOf(b, "subnet") = {}
               /\ \A k \in 1..Len(b.edges) : b.edges[k].parent_id.p # "subnet"]_vars

\* The stored snapshot was built of two observed subnets, with a gateway
\* attached to its subnet's node.
C32_Witness ==
    /\ Quiet /\ Cardinality(ObservedSubnets) = 2
    /\ Cardinality(NodesOf(topology_snapshot, "subnet")) = 2
    /\ \E k \in 1..Len(topology_snapshot.edges) : topology_snapshot.edges[k].child_id.p = "gw" /\ topology_snapshot.edges[k].parent_id.p = "subnet"

\* In snapshot b, the node with this id has exactly one outgoing edge: to
\* the gateway node of gw by evidence when gw is known, and otherwise by
\* heuristic to the hub of the subnet, of which there is one node.
AttachedOnce(b, id, subnet, gw) ==
    /\ Cardinality({k \in 1..Len(b.edges) : b.edges[k].child_id = id}) = 1
    /\ \A k \in 1..Len(b.edges) : b.edges[k].child_id = id =>
          IF gw # 0
          THEN /\ b.edges[k].parent_id = NodeId("gw", gw, "") /\ b.edges[k].method = "evidence"
               /\ \E i \in NodesOf(b, "gateway") : b.nodes[i].id = b.edges[k].parent_id /\ b.nodes[i].gateway_ip = gw
          ELSE /\ b.edges[k].parent_id = NodeId("hub", subnet, "") /\ b.edges[k].method = "heuristic"
               /\ Cardinality({i \in NodesOf(b, "unknown_hub") : b.nodes[i].id = b.edges[k].parent_id /\ b.nodes[i].subnet_cidr = subnet}) = 1
               /\ Cardinality({i \in 1..Len(b.nodes) : b.nodes[i].id = b.edges[k].parent_id}) = 1

\* C33: a built snapshot has one admin node and one host node per device
\* record, and each of them has exactly one outgoing edge: by evidence to
\* the gateway node of its gateway when it has one, otherwise by heuristic
\* to the one unknown_hub node of its subnet.
C33_EveryHostIsAttachedOnce ==
    [][Rebuilds => \A b \in {Built} :
          /\ Cardinality(NodesOf(b, "admin")) = 1
          /\ \A i \in NodesOf(b, "admin") : b.nodes[i].id = NodeId("admin", 0, "self")
          /\ AttachedOnce(b, NodeId("admin", 0, "self"), admin_network.subnet_cidr, admin_network.default_gateway_ip)
          /\ Cardinality(NodesOf(b, "host")) = Cardinality(DOMAIN devices)
          /\ \A a \in DOMAIN devices :
                /\ Cardinality({i \in NodesOf(b, "host") : b.nodes[i].agent_id = a /\ b.nodes[i].id = NodeId("host", 0, a)}) = 1
                /\ AttachedOnce(b, NodeId("host", 0, a), devices[a].subnet_cidr, devices[a].default_gateway_ip)]_vars

\* The stored snapshot attaches A and B to one shared hub and the admin to
\* its gateway.
C33_Witness ==
    /\ Quiet /\ DOMAIN devices = {"A", "B"}
    /\ \E h \in NodesOf(topology_snapshot, "unknown_hub") :
          \A a \in {"A", "B"} : \E k \in 1..Len(topology_snapshot.edges) :
              topology_snapshot.edges[k] = Edge(NodeId("host", 0, a), topology_snapshot.nodes[h].id, "heuristic")
    /\ \E k \in 1..Len(topology_snapshot.edges) :
          topology_snapshot.edges[k].child_id = NodeId("admin", 0, "self") /\ topology_snapshot.edges[k].method = "evidence"

\* C37: a built snapshot is a well-formed graph: no two nodes share an id,
\* both ends of every edge are ids of nodes of the snapshot, and the
\* attached_count of a gateway or unknown_hub node is the number of edges
\* from an admin or host node to it.
C37_SnapshotIsWellFormed ==
    [][Rebuilds => \A b \in {Built} :
          /\ \A i, j \in 1..Len(b.nodes) : b.nodes[i].id = b.nodes[j].id => i = j
          /\ \A k \in 1..Len(b.edges) :
                /\ \E i \in 1..Len(b.nodes) : b.nodes[i].id = b.edges[k].child_id
                /\ \E i \in 1..Len(b.nodes) : b.nodes[i].id = b.edges[k].parent_id
          /\ \A i \in NodesOf(b, "gateway") \cup NodesOf(b, "unknown_hub") :
                b.nodes[i].attached_count = Cardinality({k \in 1..Len(b.edges) : b.edges[k].parent_id = b.nodes[i].id})]_vars

\* The steps that begin with self.inner.lock().await.
LockSteps == {"log_push", "upsert_lock", "snapshot_get", "status_get", "act_check", "act_insert", "topo_rebuild", "topo_get", "reg_upsert", "disconnect", "start_check", "ws_bind", "wd_get", "dispatch_lock", "dispatch_update"}

\* C34: no task requests the State Store mutex while it holds it, the
\* watchdog in its per-device loop included (a request of the holder can
\* never be granted).
C34_NoTaskLocksTwice == \A p \in Procs : mutex = p => ~(todo[p] # <<>> /\ Head(todo[p]).op \in LockSteps)

\* C35: while no handler is in the middle of a frame or of its teardown,
\* every agent under whose id an open session is registered has a
\* connections entry, and every connections entry holds the channel of a
\* session that is still open.
C35_ConnectionsMirrorSessions ==
    Quiet => \A a \in Agents :
        /\ (\E s \in Sessions : sess[s].state = "open" /\ sess[s].registered_agent_id = a) => a \in DOMAIN connections
        /\ a \in DOMAIN connections => sess[connections[a]].state = "open"

\* C36: every record of a task's results comes from an agent of the task's
\* assigned_agents.
C36_ResultsComeFromAssignedAgents ==
    \A id \in DOMAIN tasks : \A i \in 1..Len(tasks[id].results) :
        tasks[id].results[i].agent_id \in Range(tasks[id].assigned_agents)

\* C38: a sweep does not mark a device whose first register the server
\* received less than the timeout before the sweep (the server has then
\* heard from it less than 20000 ms ago), whatever its heartbeats said.
C38_RecentlyHeardIsNotMarked ==
    [][sweeps' # sweeps =>
          \A a \in DOMAIN devices :
              (devices[a].status # "offline" /\ devices'[a].status = "offline") =>
                  now - devices[a].first_seen_ms >= HEARTBEAT_TIMEOUT_MS]_vars

\* C39: a task that is done or failed keeps its status and its ended_at in
\* every later step, whoever reports on it again.
C39_TerminalTaskIsFinal ==
    [][\A id \in DOMAIN tasks :
          tasks[id].status \in {"done", "failed"} =>
              tasks'[id].status = tasks[id].status /\ tasks'[id].ended_at = tasks[id].ended_at]_vars

\* No task has a rebuild of the topology ahead of it: start_runtime has made
\* its first one, and no handler is between a device mutation and the
\* rebuild that follows it.
NoRebuildAhead == \A p \in Procs : \A i \in 1..Len(todo[p]) : todo[p][i].op \notin {"start_check", "topo_rebuild"}

\* C40: whenever no rebuild is ahead, the stored topology key is the
\* structural key of the snapshot the builder makes of the present device
\* map and admin facts, and the stored snapshot has that key; a watchdog
\* sweep, which is followed by no rebuild, leaves this so.
C40_StoredKeyMatchesDevices ==
    NoRebuildAhead => \A b \in {Built} :
        topology_key = topology_key_of(b) /\ topology_key_of(topology_snapshot) = topology_key

\* The watchdog has just marked A offline, and no rebuild is ahead.
C40_Witness ==
    /\ NoRebuildAhead /\ At("wd", "wd_get") /\ mutex = "none" /\ Cur("wd").ids = <<"A">>
    /\ devices["A"].status = "offline" /\ "A" \in DOMAIN connections
    /\ "A" \in HostsOf(topology_snapshot)

====
